---- MODULE Spec2Model ----
(***************************************************************************)
(* A model of the frame pipeline of the "screen" application:              *)
(*   src/App.tsx                      renderCanvas (the orchestrator)      *)
(*   src/utils/glitchAlgorithms.ts    applyThreshold, the glitch passes    *)
(*   src/utils/chromaKeyAlgorithms.ts applyChromaKey                       *)
(*                                                                         *)
(* A pixel buffer (Uint8ClampedArray) is a function from the byte indices  *)
(* 0..len-1 to 0..255, four bytes (R,G,B,A) per pixel, row-major.          *)
(*                                                                         *)
(* The pure buffer functions are exercised by small specifications whose   *)
(* Init draws the buffer and the parameters and whose actions apply the    *)
(* function (SpecThreshold, SpecGlitch, SpecBlock, SpecChroma, SpecDims);  *)
(* Spec runs renderCanvas stage by stage.  The variables a specification   *)
(* does not use keep their idle value.                                     *)
(***************************************************************************)
EXTENDS Integers, Sequences, FiniteSets, TLC

VARIABLES
  data,     \* the buffer the function under study works on (imgData.data)
  before,   \* the buffer as it was before the last application
  width,    \* its width in pixels (in Spec: w of the invocation)
  height,   \* its height in pixels (in Spec: h of the invocation)
  params,   \* the parameter record handed to the function
  phase,    \* how far the function, or renderCanvas, has got
  orig,     \* the buffer the function under study started from
  blocks,   \* what the last pass drew: the blocks of the block displacement,
            \* the rows of the pixel sort
  app,      \* App state renderCanvas reads: mode, tab, layers, parameters
  refs,     \* the elements the source refs point to
  canvas,   \* the visible canvas: its size and what has been painted on it
  calls,    \* the stages the current renderCanvas invocation has invoked
  saved,    \* the canvas as it was when the invocation began
  blendData, \* renderBlend: the second source as read from the helper canvas
  grid,     \* renderAscii: the cols and rows it last computed
  loop,     \* renderHalftone: the lattice point its loops have reached
  dots,     \* renderHalftone: the centres of the dots drawn so far
  raf,      \* the animation frames requested and not yet run or cancelled
  localStorage, \* the items of storage.ts: users, posts and the session user
  clock     \* Date.now(), in calls of storage.ts so far

bufVars == <<data, before, params, orig, blocks>>

pipeVars == <<app, refs, canvas, calls, saved>>

auxVars == <<blendData, grid, loop, dots, raf, localStorage, clock>>

vars == <<data, before, width, height, params, phase, orig, blocks,
          app, refs, canvas, calls, saved, blendData, grid, loop, dots,
          raf, localStorage, clock>>

----------------------------------------------------------------------------
(* Bounds of the model. *)

\* applyThreshold is exercised on buffers of 1..MaxThreshPixels pixels.
MaxThreshPixels == 2

\* The glitch passes are exercised on buffers of 1..MaxGlitchPixels pixels.
MaxGlitchPixels == 4

\* applyChromaKey is exercised on buffers of 1..MaxChromaPixels pixels.
MaxChromaPixels == 1

\* Math.random() returns one of 0/RandDen, ..., (RandDen-1)/RandDen; a draw
\* is the numerator.
RandDen == 2

----------------------------------------------------------------------------
(* Buffers. *)

Byte == 0..255

\* data.length
Length(d) == Cardinality(DOMAIN d)

\* The empty buffer.
NoData == [i \in {} |-> 0]

\* A buffer built from a sequence of RGBA pixels.
FromPixels(pxs) == [i \in 0..(4 * Len(pxs) - 1) |-> pxs[(i \div 4) + 1][(i % 4) + 1]]

\* The variables only some specifications use, at rest.
NoGrid == [finite |-> TRUE, cols |-> 0, rows |-> 0]

NoLoop == [x2 |-> 0, y2 |-> 0, turn |-> 0]

NoRaf == [queue |-> <<>>, frame |-> 0, renders |-> 0]

\* A username is a sequence of characters; the session item is present or
\* not (getItem gives null for an item never set or removed).
NoItem == [present |-> FALSE, value |-> <<>>]

NoStorage == [users |-> <<>>, posts |-> <<>>, session |-> NoItem]

AuxIdle ==
  /\ blendData = NoData /\ grid = NoGrid /\ loop = NoLoop /\ dots = {}
  /\ raf = NoRaf
  /\ localStorage = NoStorage
  /\ clock = 0

\* All sequences of exactly n elements of S.
SeqsOfLen(S, n) == [1..n -> S]

\* Pixel (index p) of a buffer as <<R,G,B,A>>.
PixelAt(d, p) == <<d[4 * p], d[4 * p + 1], d[4 * p + 2], d[4 * p + 3]>>

\* The function f with every value computed (the checker otherwise keeps a
\* function expression unevaluated and recomputes it at every use).
Eval(f) == f @@ <<>>

Min(a, b) == IF a < b THEN a ELSE b
Max(a, b) == IF a > b THEN a ELSE b

----------------------------------------------------------------------------
(* JavaScript numbers.  The source computes with IEEE-754 doubles: w / h,  *)
(* MAX_DIM / ratio, height * (threshold / 100).  A positive double is      *)
(* [m, e] with value m * 2^e and 2^52 <= m < 2^53; m does not fit the      *)
(* checker's integers, so it is a little-endian sequence of NLimbs limbs   *)
(* of LimbBits bits.  Every operation rounds to nearest, ties to even.     *)

\* Significand bits of a double.
MantBits == 53

LimbBits == 5 * 3
LimbBase == 2 ^ LimbBits

\* Limbs of a significand (4 * 15 = 60 bits >= MantBits + 3) and of a product.
NLimbs == 2 * 2
WideLimbs == 2 * NLimbs

BigZero == [i \in 1..NLimbs |-> 0]

\* 0 <= n < 2^31
BigFromInt(n) ==
  Eval([i \in 1..NLimbs |->
          CASE i = 1 -> n % LimbBase
            [] i = 2 -> (n \div LimbBase) % LimbBase
            [] i = 3 -> n \div (LimbBase * LimbBase)
            [] OTHER -> 0])

BigIsZero(a) == \A i \in DOMAIN a : a[i] = 0

\* a < 2^31
BigToInt(a) == a[1] + LimbBase * a[2] + LimbBase * LimbBase * a[3]

\* Limb i of a, 0 outside its limbs.
BigLimb(a, i) == IF i \in DOMAIN a THEN a[i] ELSE 0

\* a with n limbs (high limbs added as 0, or dropped).
BigResize(a, n) == Eval([i \in 1..n |-> BigLimb(a, i)])

\* The carry into limb i of a + b.
RECURSIVE BigCarry(_, _, _)
BigCarry(a, b, i) ==
  IF i = 1 THEN 0 ELSE (a[i - 1] + b[i - 1] + BigCarry(a, b, i - 1)) \div LimbBase

\* a + b, a and b of the same number of limbs
BigAdd(a, b) == Eval([i \in DOMAIN a |-> (a[i] + b[i] + BigCarry(a, b, i)) % LimbBase])

\* a + 1
BigInc(a) == BigAdd(a, [i \in DOMAIN a |-> IF i = 1 THEN 1 ELSE 0])

\* The borrow out of limbs 1..i-1 of a - b.
RECURSIVE BigBorrow(_, _, _)
BigBorrow(a, b, i) ==
  IF i = 1 THEN 0
  ELSE IF a[i - 1] - b[i - 1] - BigBorrow(a, b, i - 1) < 0 THEN 1 ELSE 0

\* a - b, for a >= b
BigSub(a, b) ==
  Eval([i \in DOMAIN a |-> (a[i] - b[i] - BigBorrow(a, b, i) + LimbBase) % LimbBase])

\* a >= b
BigGe(a, b) == BigBorrow(a, b, Len(a) + 1) = 0

BigOdd(a) == a[1] % 2 = 1

\* Bit j (0 = lowest) of a.
BigBit(a, j) == (BigLimb(a, (j \div LimbBits) + 1) \div (2 ^ (j % LimbBits))) % 2

\* The number of significant bits of one limb (0 for zero).
LimbBitLen(v) == CHOOSE k \in 0..LimbBits : v < 2 ^ k /\ (k = 0 \/ v >= 2 ^ (k - 1))

\* The number of significant bits of a (0 for zero).
BigBitLen(a) ==
  IF BigIsZero(a) THEN 0
  ELSE LET top == CHOOSE i \in DOMAIN a : a[i] # 0 /\ \A j \in (i + 1)..Len(a) : a[j] = 0
       IN (top - 1) * LimbBits + LimbBitLen(a[top])

\* a * 2^n (bits shifted beyond the limbs of a are dropped)
BigShl(a, n) ==
  LET ls == n \div LimbBits
      bs == n % LimbBits
  IN Eval([i \in DOMAIN a |->
             ((BigLimb(a, i - ls) * (2 ^ bs)) % LimbBase)
             + (BigLimb(a, i - ls - 1) \div (2 ^ (LimbBits - bs)))])

\* floor(a / 2^n)
BigShr(a, n) ==
  LET ls == n \div LimbBits
      bs == n % LimbBits
  IN Eval([i \in DOMAIN a |->
             (BigLimb(a, i + ls) \div (2 ^ bs))
             + ((BigLimb(a, i + ls + 1) % (2 ^ bs)) * (2 ^ (LimbBits - bs)))])

BigDouble(a) == BigShl(a, 1)

\* The carry into limb i of a * k, k one limb.
RECURSIVE BigMulCarry(_, _, _)
BigMulCarry(a, k, i) ==
  IF i = 1 THEN 0 ELSE (a[i - 1] * k + BigMulCarry(a, k, i - 1)) \div LimbBase

\* a * k, k one limb
BigMulLimb(a, k) == Eval([i \in DOMAIN a |-> (a[i] * k + BigMulCarry(a, k, i)) % LimbBase])

\* a * b for a, b < 2^MantBits, as a wide number
BigMul(a, b) ==
  LET wa == BigResize(a, WideLimbs) IN
  BigAdd(BigAdd(BigMulLimb(wa, b[1]),
                BigShl(BigMulLimb(wa, b[2]), LimbBits)),
         BigAdd(BigShl(BigMulLimb(wa, b[3]), 2 * LimbBits),
                BigShl(BigMulLimb(wa, b[4]), 3 * LimbBits)))

\* Whether any of the low n bits of a is set.
BigLowBitsSet(a, n) == \E j \in 0..(n - 1) : BigBit(a, j) = 1

FZero == [m |-> BigZero, e |-> 0]

\* The double nearest to n * 2^e (ties to even), n a big integer.
FRound(n, e) ==
  LET len == BigBitLen(n) IN
  IF len = 0 THEN FZero
  ELSE IF len <= MantBits
    THEN [m |-> BigShl(BigResize(n, NLimbs), MantBits - len), e |-> e - (MantBits - len)]
  ELSE LET s     == len - MantBits
           q     == BigResize(BigShr(n, s), NLimbs)
           guard == BigBit(n, s - 1) = 1
           stick == BigLowBitsSet(n, s - 1)
           up    == guard /\ (stick \/ BigOdd(q))
           q1    == IF up THEN BigInc(q) ELSE q
       IN IF BigBitLen(q1) > MantBits
            THEN [m |-> BigShr(q1, 1), e |-> e + s + 1]
            ELSE [m |-> q1, e |-> e + s]

\* An integer 0 <= n < 2^31 as a double (exact).
FromInt(n) == FRound(BigFromInt(n), 0)

\* x * y
FMul(x, y) ==
  IF BigIsZero(x.m) \/ BigIsZero(y.m) THEN FZero
  ELSE FRound(BigMul(x.m, y.m), x.e + y.e)

\* One step of the binary long division by d: st = <<quotient, remainder,
\* steps>> gains one quotient bit, until the quotient has MantBits + 2.
FDivStep(st, d) ==
  IF BigBitLen(st[1]) >= MantBits + 2 THEN st
  ELSE IF BigGe(st[2], d)
         THEN <<BigInc(BigDouble(st[1])), BigDouble(BigSub(st[2], d)), st[3] + 1>>
         ELSE <<BigDouble(st[1]), BigDouble(st[2]), st[3] + 1>>

FDivStep4(st, d) == FDivStep(FDivStep(FDivStep(FDivStep(st, d), d), d), d)

\* The long division run to its end, four steps at a time.
RECURSIVE FDivLoop(_, _)
FDivLoop(st, d) ==
  IF BigBitLen(st[1]) >= MantBits + 2 THEN st
  ELSE FDivLoop(FDivStep4(FDivStep4(st, d), d), d)

\* x / y for x >= 0, y > 0.  After n steps the quotient is
\* floor(x.m * 2^(n-1) / y.m); a remainder left over is kept as a sticky
\* lowest bit, so that FRound rounds the exact quotient.
FDiv(x, y) ==
  IF BigIsZero(x.m) THEN FZero
  ELSE LET res    == FDivLoop(<<BigZero, x.m, 0>>, y.m)
           q      == res[1]
           sticky == ~BigIsZero(res[2])
           qs     == IF sticky /\ ~BigOdd(q) THEN BigInc(q) ELSE q
       IN FRound(qs, x.e - y.e - (res[3] - 1))

\* Math.floor(x) for 0 <= x < 2^31
FFloor(x) ==
  IF BigIsZero(x.m) THEN 0
  ELSE IF x.e >= 0 THEN BigToInt(BigShl(x.m, x.e))
  ELSE IF 0 - x.e >= MantBits THEN 0
  ELSE BigToInt(BigShr(x.m, 0 - x.e))

\* x < y
FLt(x, y) ==
  IF BigIsZero(y.m) THEN FALSE
  ELSE IF BigIsZero(x.m) THEN TRUE
  ELSE IF x.e # y.e THEN x.e < y.e
  ELSE ~BigGe(x.m, y.m)

\* The exponent gap beyond which the smaller operand of a sum or a
\* difference cannot change the rounded result.
FarApart == MantBits + 2

\* x + y
FAdd(x, y) ==
  IF BigIsZero(x.m) THEN y
  ELSE IF BigIsZero(y.m) THEN x
  ELSE LET hi == IF x.e >= y.e THEN x ELSE y
           lo == IF x.e >= y.e THEN y ELSE x
           d  == hi.e - lo.e
       IN IF d > FarApart THEN hi
          ELSE FRound(BigAdd(BigShl(BigResize(hi.m, WideLimbs), d),
                             BigResize(lo.m, WideLimbs)), lo.e)

\* x - y for x >= y
FSub(x, y) ==
  IF BigIsZero(y.m) THEN x
  ELSE LET d == x.e - y.e
       IN IF d > FarApart THEN x
          ELSE FRound(BigSub(BigShl(BigResize(x.m, WideLimbs), d),
                             BigResize(y.m, WideLimbs)), y.e)

\* One step of the integer square root of n: st = <<root, b>> gains bit b
\* of the root if it fits, and b goes down by one; nothing is left at b < 0.
BigSqrtStep(st, n) ==
  IF st[2] < 0 THEN st
  ELSE LET cand == BigAdd(st[1], BigShl(BigInc(BigZero), st[2]))
       IN IF BigGe(n, BigMul(cand, cand)) THEN <<cand, st[2] - 1>>
                                          ELSE <<st[1], st[2] - 1>>

BigSqrtStep4(st, n) == BigSqrtStep(BigSqrtStep(BigSqrtStep(BigSqrtStep(st, n), n), n), n)

\* The square root run to its end, four steps at a time.
RECURSIVE BigSqrtLoop(_, _)
BigSqrtLoop(st, n) ==
  IF st[2] < 0 THEN st[1]
  ELSE BigSqrtLoop(BigSqrtStep4(BigSqrtStep4(st, n), n), n)

\* Math.sqrt(x): the root of the significand scaled to 2 * (MantBits + 3)
\* bits or one fewer, an inexact root kept as a sticky lowest bit.
FSqrt(x) ==
  IF BigIsZero(x.m) THEN FZero
  ELSE LET k    == IF (x.e - (MantBits + 6)) % 2 = 0 THEN MantBits + 6 ELSE MantBits + 5
           n    == BigShl(BigResize(x.m, WideLimbs), k)
           root == BigSqrtLoop(<<BigZero, MantBits + 2>>, n)
           r2   == BigDouble(root)
           rs   == IF BigMul(root, root) = n THEN r2 ELSE BigInc(r2)
       IN FRound(rs, ((x.e - k) \div 2) - 1)

\* Storing the double x >= 0 into a Uint8ClampedArray: rounded to the
\* nearest integer, ties to even, then clamped to 255.
FToUint8Clamp(x) ==
  IF BigIsZero(x.m) THEN 0
  ELSE IF x.e >= 0 THEN 255
  ELSE IF 0 - x.e > MantBits + 1 THEN 0
  ELSE LET s     == 0 - x.e
           q     == BigShr(x.m, s)
           guard == BigBit(x.m, s - 1) = 1
           stick == BigLowBitsSet(x.m, s - 1)
           up    == guard /\ (stick \/ BigOdd(q))
           v     == IF BigBitLen(q) > 8 THEN 256 ELSE BigToInt(q)
       IN Min(255, IF up THEN v + 1 ELSE v)

----------------------------------------------------------------------------
(* The output dimensions, App.tsx 271-285.                                 *)

\* const MAX_DIM = 2048
MAX_DIM == 2048

\* The canvas size <<w, h>> renderCanvas computes for a source of w x h.
OutputDims(w, h) ==
  IF w > MAX_DIM \/ h > MAX_DIM
    THEN LET ratio == FDiv(FromInt(w), FromInt(h)) IN
         IF w > h
           THEN <<MAX_DIM, FFloor(FDiv(FromInt(MAX_DIM), ratio))>>
           ELSE <<FFloor(FMul(FromInt(MAX_DIM), ratio)), MAX_DIM>>
    ELSE <<w, h>>

----------------------------------------------------------------------------
(* applyThreshold, glitchAlgorithms.ts 9-28.                               *)
(* brightness = (r+g+b)/3 >= threshold is r+g+b >= 3*threshold: the sum is *)
(* an integer, and for an integer threshold the double quotient is exact   *)
(* when the sum is 3*threshold and at least 1/3 away from it otherwise.    *)

applyThresholdSwapped(d, threshold) ==
  IF threshold <= 0 THEN d
  ELSE [i \in DOMAIN d |->
          IF i % 4 = 3 THEN d[i]
          ELSE LET p == i - (i % 4)
               IN IF d[p] + d[p + 1] + d[p + 2] >= 3 * threshold THEN 0 ELSE 255]

applyThresholdStrict(d, threshold) ==
  IF threshold <= 0 THEN d
  ELSE [i \in DOMAIN d |->
          IF i % 4 = 3 THEN d[i]
          ELSE LET p == i - (i % 4)
               IN IF d[p] + d[p + 1] + d[p + 2] > 3 * threshold THEN 255 ELSE 0]

applyThreshold(d, threshold) ==
  IF threshold <= 0 THEN d
  ELSE [i \in DOMAIN d |->
          IF i % 4 = 3 THEN d[i]
          ELSE LET p == i - (i % 4)
               IN IF d[p] + d[p + 1] + d[p + 2] >= 3 * threshold THEN 255 ELSE 0]

----------------------------------------------------------------------------
(* renderCanvas, App.tsx 237-379.  The canvas is its size and the list of  *)
(* what was painted on it since it was last cleared.  data holds the       *)
(* pixels the base draw and the threshold pass leave, for the sources      *)
(* whose pixels are carried; what the optional stages paint over them is   *)
(* recorded in the list only.                                              *)

\* The optional stages in the order renderCanvas reaches them (Tab keys).
Stages == <<"BLEND", "TEXT", "MANUAL", "HALFTONE", "ASCII">>

LayerSet == {Stages[i] : i \in DOMAIN Stages}

\* What a ref can hold: null, a video element, an image element.
NullRef ==
  [kind |-> "null", readyState |-> 0, complete |-> FALSE,
   naturalWidth |-> 0, w |-> 0, h |-> 0]

VideoEl(rs, vw, vh) ==
  [kind |-> "video", readyState |-> rs, complete |-> FALSE,
   naturalWidth |-> 0, w |-> vw, h |-> vh]

ImageEl(c, nw, iw, ih) ==
  [kind |-> "image", readyState |-> 0, complete |-> c,
   naturalWidth |-> nw, w |-> iw, h |-> ih]

\* Lines 249-253
SelectSource(a, r) ==
  IF a.appMode = "CAMERA" THEN r.videoRef
  ELSE IF a.appMode = "IMAGE"
    THEN IF a.sourceType = "video" THEN r.uploadedVideoRef ELSE r.originalImgRef
    ELSE NullRef

\* Lines 256-261: source && (isVideoReady || isImageReady)
SourceReadyNoWidth(s) ==
  /\ s.kind # "null"
  /\ \/ s.kind = "video" /\ s.readyState >= 2
     \/ s.kind = "image" /\ s.complete

SourceReady(s) ==
  /\ s.kind # "null"
  /\ \/ s.kind = "video" /\ s.readyState >= 2
     \/ s.kind = "image" /\ s.complete /\ s.naturalWidth > 0

\* getImageData of a w x h rectangle, and drawImage of a w x h canvas,
\* throw when w or h is 0.
Degenerate(w, h) == w < 1 \/ h < 1

DEFAULT_ASCII_SCALE == 8

\* renderAscii, chromaKeyAlgorithms.ts 101-107: cols = floor(width / scale)
\* and rows = floor(height / (scale * 1.6)); for the scale and the heights
\* used here the quotient of the doubles floors to (10 * height) \div
\* (16 * scale).
AsciiGridEmpty(w, h) ==
  \/ w \div DEFAULT_ASCII_SCALE <= 0
  \/ (10 * h) \div (16 * DEFAULT_ASCII_SCALE) <= 0

Painted(c, what) == [c EXCEPT !.ops = Append(@, what)]

Invoked(stage) == Append(calls, [stage |-> stage, w |-> width, h |-> height])

\* The pixels of an element's current frame, for the elements small enough
\* to carry them here (both opaque); NoData stands for a frame that is not
\* followed pixel by pixel.
SourceRaster(el) ==
  IF el = ImageEl(TRUE, 3, 3, 2)
    THEN FromPixels(<< <<0, 0, 0, 255>>, <<127, 127, 128, 255>>,
                       <<129, 128, 128, 255>>, <<255, 255, 255, 255>>,
                       <<200, 10, 90, 255>>, <<254, 255, 255, 255>> >>)
  ELSE IF el = ImageEl(TRUE, 100, 100, 100)
    THEN [i \in 0..(4 * 100 * 100 - 1) |-> 255]
  ELSE NoData

\* Lines 292-338 with the global parameters of DEFAULT_GLOBAL (no filter,
\* no vibration, scale 1) and no mirror: the canvas is cleared and the
\* source is drawn at 0,0 in its own size, so an opaque source of the
\* size of the canvas is copied pixel for pixel.
BaseRaster(source, w, h) ==
  IF Length(SourceRaster(source)) = 4 * w * h /\ ~Degenerate(w, h)
    THEN SourceRaster(source) ELSE NoData

\* Lines 237-338 without the clearRect of line 296: a canvas that keeps its
\* size keeps what was painted on it, and the base frame is drawn over it.
RenderStartNoClear ==
  /\ phase \in {"idle", "done", "skipped", "threw"}
  /\ saved' = canvas
  /\ LET source == SelectSource(app, refs) IN
       IF ~SourceReady(source) \/ app.activeTab = "AI"
         THEN /\ phase' = "skipped"
              /\ calls' = <<>>
              /\ UNCHANGED <<canvas, width, height, data>>
         ELSE \E wh \in {OutputDims(source.w, source.h)} :
              /\ width' = wh[1]
              /\ height' = wh[2]
              /\ canvas' = [width |-> wh[1], height |-> wh[2],
                            ops |-> IF Degenerate(wh[1], wh[2]) THEN <<>>
                                    ELSE IF canvas.width = wh[1] /\ canvas.height = wh[2]
                                      THEN Append(canvas.ops, "base")
                                    ELSE <<"base">>]
              /\ data' = BaseRaster(source, wh[1], wh[2])
              /\ calls' = <<[stage |-> "BASE", w |-> wh[1], h |-> wh[2]]>>
              /\ phase' = "threshold"
  /\ UNCHANGED <<app, refs, before, params, orig, blocks, auxVars>>

\* Lines 237-338: source selection, the readiness and AI-tab returns, the
\* output size, the canvas resize, the clear and the base draw.
RenderStart ==
  /\ phase \in {"idle", "done", "skipped", "threw"}
  /\ saved' = canvas
  /\ LET source == SelectSource(app, refs) IN
       IF ~SourceReady(source) \/ app.activeTab = "AI"
         THEN /\ phase' = "skipped"
              /\ calls' = <<>>
              /\ UNCHANGED <<canvas, width, height, data>>
         ELSE \E wh \in {OutputDims(source.w, source.h)} :
              /\ width' = wh[1]
              /\ height' = wh[2]
              /\ canvas' = [width |-> wh[1], height |-> wh[2],
                            ops |-> IF Degenerate(wh[1], wh[2])
                                      THEN <<>> ELSE <<"base">>]
              /\ data' = BaseRaster(source, wh[1], wh[2])
              /\ calls' = <<[stage |-> "BASE", w |-> wh[1], h |-> wh[2]]>>
              /\ phase' = "threshold"
  /\ UNCHANGED <<app, refs, before, params, orig, blocks, auxVars>>

\* Lines 341-345
ThresholdPass ==
  /\ phase = "threshold"
  /\ IF app.threshold > 0
       THEN IF Degenerate(width, height)
              THEN phase' = "threw" /\ UNCHANGED <<canvas, calls, data>>
              ELSE /\ canvas' = Painted(canvas, "threshold")
                   /\ data' = applyThreshold(data, app.threshold)
                   /\ calls' = Invoked("THRESHOLD")
                   /\ phase' = "blend"
       ELSE phase' = "blend" /\ UNCHANGED <<canvas, calls, data>>
  /\ UNCHANGED <<app, refs, saved, width, height, before, params, orig,
                 blocks, auxVars>>

\* Lines 348-353 and renderBlend, glitchAlgorithms.ts 185-215
StageBlend ==
  /\ phase = "blend"
  /\ IF app.activeLayers["BLEND"]
       THEN /\ calls' = Invoked("BLEND")
            /\ IF Degenerate(width, height)
                 THEN phase' = "threw" /\ UNCHANGED canvas
                 ELSE /\ phase' = "text"
                      /\ canvas' = IF refs.blendRef.kind = "null" THEN canvas
                                   ELSE Painted(canvas, "blend")
       ELSE phase' = "text" /\ UNCHANGED <<canvas, calls>>
  /\ UNCHANGED <<app, refs, saved, width, height, bufVars, auxVars>>

\* Lines 356-358 without the test of activeLayers[Tab.TEXT].
StageTextUnflagged ==
  /\ phase = "text"
  /\ IF TRUE
       THEN /\ calls' = Invoked("TEXT")
            /\ canvas' = IF app.textContent = "" THEN canvas
                         ELSE Painted(canvas, "text")
       ELSE UNCHANGED <<canvas, calls>>
  /\ phase' = "glitch"
  /\ UNCHANGED <<app, refs, saved, width, height, bufVars, auxVars>>

\* Lines 356-358 and renderText, textRenderer.ts 3-38
StageText ==
  /\ phase = "text"
  /\ IF app.activeLayers["TEXT"]
       THEN /\ calls' = Invoked("TEXT")
            /\ canvas' = IF app.textContent = "" THEN canvas
                         ELSE Painted(canvas, "text")
       ELSE UNCHANGED <<canvas, calls>>
  /\ phase' = "glitch"
  /\ UNCHANGED <<app, refs, saved, width, height, bufVars, auxVars>>

\* Lines 361-363 and processImage, glitchAlgorithms.ts 166-182
StageGlitch ==
  /\ phase = "glitch"
  /\ IF app.activeLayers["MANUAL"]
       THEN /\ calls' = Invoked("MANUAL")
            /\ IF Degenerate(width, height)
                 THEN phase' = "threw" /\ UNCHANGED canvas
                 ELSE phase' = "halftone" /\ canvas' = Painted(canvas, "glitch")
       ELSE phase' = "halftone" /\ UNCHANGED <<canvas, calls>>
  /\ UNCHANGED <<app, refs, saved, width, height, bufVars, auxVars>>

\* Lines 366-370 and renderHalftone, chromaKeyAlgorithms.ts 169-185
StageHalftone ==
  /\ phase = "halftone"
  /\ IF app.activeLayers["HALFTONE"]
       THEN /\ calls' = Invoked("HALFTONE")
            /\ IF Degenerate(width, height)
                 THEN phase' = "threw" /\ UNCHANGED canvas
                 ELSE phase' = "ascii" /\ canvas' = Painted(canvas, "halftone")
       ELSE phase' = "ascii" /\ UNCHANGED <<canvas, calls>>
  /\ UNCHANGED <<app, refs, saved, width, height, bufVars, auxVars>>

\* Lines 373-377 and renderAscii, chromaKeyAlgorithms.ts 83-110
StageAscii ==
  /\ phase = "ascii"
  /\ IF app.activeLayers["ASCII"]
       THEN /\ calls' = Invoked("ASCII")
            /\ canvas' = IF AsciiGridEmpty(width, height) THEN canvas
                         ELSE Painted(canvas, "ascii")
       ELSE UNCHANGED <<canvas, calls>>
  /\ phase' = "done"
  /\ UNCHANGED <<app, refs, saved, width, height, bufVars, auxVars>>

(* Spec: renderCanvas invoked again and again on a fixed App state. *)

\* appMode, sourceType and what the refs hold.
SourceConfigs ==
  LET cfg(m, t, v, u, i, b) ==
        [appMode |-> m, sourceType |-> t, videoRef |-> v,
         uploadedVideoRef |-> u, originalImgRef |-> i, blendRef |-> b]
      cam  == VideoEl(4, 640, 480)
      idle == VideoEl(0, 0, 0)
      pic  == ImageEl(TRUE, 800, 800, 600)
  IN { cfg("CAMERA", "image", cam, idle, NullRef, NullRef),
       cfg("CAMERA", "image", VideoEl(1, 0, 0), idle, pic, pic),
       cfg("CAMERA", "video", NullRef, idle, pic, NullRef),
       cfg("IMAGE", "image", idle, idle, pic, pic),
       cfg("IMAGE", "image", cam, idle, NullRef, pic),
       cfg("IMAGE", "image", cam, idle, ImageEl(FALSE, 640, 640, 480), pic),
       cfg("IMAGE", "image", cam, idle, ImageEl(TRUE, 0, 0, 0), NullRef),
       cfg("IMAGE", "image", idle, idle, ImageEl(TRUE, 2049, 2049, 1), pic),
       cfg("IMAGE", "image", idle, idle, ImageEl(TRUE, 4096, 4096, 186), NullRef),
       cfg("IMAGE", "image", idle, idle, ImageEl(TRUE, 3, 3, 2), pic),
       cfg("IMAGE", "video", idle, VideoEl(4, 1, 4096), pic, pic),
       cfg("IMAGE", "video", idle, VideoEl(1, 640, 480), pic, NullRef),
       cfg("IMAGE", "video", idle, VideoEl(2, 1280, 720), NullRef, pic) }

\* globalParams.threshold and textParams.content
ParamConfigs ==
  { [threshold |-> 0, textContent |-> "SCREEN_"],
    [threshold |-> 128, textContent |-> "SCREEN_"],
    [threshold |-> 128, textContent |-> ""] }

\* A canvas element as created, and one holding an earlier frame.
CanvasStates ==
  { [width |-> 300, height |-> 150, ops |-> <<>>],
    [width |-> 800, height |-> 600, ops |-> <<"base", "text">>] }

\* The App state and the canvas when renderCanvas is first invoked, for the
\* given source configurations and layer flags.
InitWith(configs, layerFlags) ==
  /\ \E c \in configs, g \in ParamConfigs :
       /\ app \in [appMode : {c.appMode}, sourceType : {c.sourceType},
                   activeTab : {"MANUAL", "AI"},
                   activeLayers : layerFlags,
                   threshold : {g.threshold},
                   textContent : {g.textContent}]
       /\ refs = [videoRef |-> c.videoRef,
                  uploadedVideoRef |-> c.uploadedVideoRef,
                  originalImgRef |-> c.originalImgRef,
                  blendRef |-> c.blendRef]
  /\ canvas \in CanvasStates
  /\ saved = canvas
  /\ calls = <<>>
  /\ width = 0
  /\ height = 0
  /\ phase = "idle"
  /\ data = NoData
  /\ before = NoData
  /\ orig = NoData
  /\ blocks = <<>>
  /\ params = [threshold |-> 0]
  /\ AuxIdle

Init == InitWith(SourceConfigs, [LayerSet -> BOOLEAN])

Next ==
  \/ RenderStart
  \/ ThresholdPass
  \/ StageBlend
  \/ StageText
  \/ StageGlitch
  \/ StageHalftone
  \/ StageAscii

Spec == Init /\ [][Next]_vars

(* SpecOff: renderCanvas invoked again and again with every optional layer *)
(* switched off, on the sources above and on a white 100 x 100 image.      *)

WhiteSourceConfig ==
  [appMode |-> "IMAGE", sourceType |-> "image", videoRef |-> VideoEl(0, 0, 0),
   uploadedVideoRef |-> VideoEl(0, 0, 0),
   originalImgRef |-> ImageEl(TRUE, 100, 100, 100), blendRef |-> NullRef]

AllLayersOff == [l \in LayerSet |-> FALSE]

OffInit == InitWith(SourceConfigs \cup {WhiteSourceConfig}, {AllLayersOff})

SpecOff == OffInit /\ [][Next]_vars

\* The pipeline variables of the specifications that run one function only.
PipeIdle ==
  /\ app = [appMode |-> "IMAGE"]
  /\ refs = [originalImgRef |-> NullRef]
  /\ canvas = [width |-> 0, height |-> 0, ops |-> <<>>]
  /\ calls = <<>>
  /\ saved = canvas

----------------------------------------------------------------------------
(* The glitch passes, glitchAlgorithms.ts 3-182.                           *)

Draws == 0..(RandDen - 1)

\* a % b of JavaScript for b # 0: the sign of the result is the dividend's.
JsMod(a, b) ==
  LET d == IF b < 0 THEN 0 - b ELSE b
  IN IF a >= 0 THEN a % d ELSE 0 - ((0 - a) % d)

\* randomInt(min, max) with Math.random() = r / RandDen; for denominators up
\* to 8 the double product floors as the exact one does.
randomInt(min, max, r) == ((r * (max - min + 1)) \div RandDen) + min

\* Reading index i of a typed array and storing the result into a
\* Uint8ClampedArray: outside the array the read is undefined, stored as 0.
ReadByte(d, i) == IF i \in DOMAIN d THEN d[i] ELSE 0

(* applyRGBShift, lines 31-51.  `buffer` is the copy taken before the loop. *)
applyRGBShiftNoWrap(d, w, h, offset) ==
  IF offset = 0 THEN d
  ELSE [i \in DOMAIN d |->
          IF i % 4 # 0 THEN d[i]
          ELSE LET pixelIndex == i \div 4
                   x          == pixelIndex % w
                   y          == (pixelIndex - x) \div w
                   newX       == x + offset
                   newIndex   == (y * w + newX) * 4
               IN IF newIndex < Length(d) THEN ReadByte(d, newIndex) ELSE d[i]]

applyRGBShift(d, w, h, offset) ==
  IF offset = 0 THEN d
  ELSE [i \in DOMAIN d |->
          IF i % 4 # 0 THEN d[i]
          ELSE LET pixelIndex == i \div 4
                   x          == pixelIndex % w
                   y          == (pixelIndex - x) \div w
                   newX       == JsMod(x + offset, w)
                   newIndex   == (y * w + newX) * 4
               IN IF newIndex < Length(d) THEN ReadByte(d, newIndex) ELSE d[i]]

(* applyBlockShift, lines 53-87. *)

\* numBlocks = Math.floor((intensity / 100) * 30)
NumBlocks(intensity) ==
  IF intensity <= 0 THEN 0
  ELSE FFloor(FMul(FDiv(FromInt(intensity), FromInt(100)), FromInt(30)))

\* The six draws of one block, in the order of the source.
BlockDraws == [blockW : Draws, blockH : Draws, srcX : Draws, srcY : Draws,
               shiftX : Draws, shiftY : Draws]

\* Lines 60-70: the geometry of one block.
BlockGeometry(w, h, r) ==
  LET maxBlockSize == w \div 4
      blockW == randomInt(10, maxBlockSize, r.blockW)
      blockH == randomInt(2, 50, r.blockH)
      srcX   == randomInt(0, w - blockW, r.srcX)
      srcY   == randomInt(0, h - blockH, r.srcY)
      shiftX == randomInt(-50, 50, r.shiftX)
      shiftY == randomInt(-10, 10, r.shiftY)
      destX  == Min(w - blockW, Max(0, srcX + shiftX))
      destY  == Min(h - blockH, Max(0, srcY + shiftY))
  IN [blockW |-> blockW, blockH |-> blockH, srcX |-> srcX, srcY |-> srcY,
      destX |-> destX, destY |-> destY]

\* Line 81: whether row y of block g is copied.
RowCopied(d, w, g, y) ==
  LET srcStart  == ((g.srcY + y) * w + g.srcX) * 4
      destStart == ((g.destY + y) * w + g.destX) * 4
      len       == g.blockW * 4
  IN /\ srcStart + len < Length(d)
     /\ destStart + len < Length(d)
     /\ srcStart >= 0
     /\ destStart >= 0

\* Lines 73-85: rows y, y+1, ..., blockH-1 of block g.  data.set of a
\* subarray of the same buffer copies as if through a temporary.
RECURSIVE CopyBlockRows(_, _, _, _)
CopyBlockRows(d, w, g, y) ==
  IF y >= g.blockH THEN d
  ELSE LET srcStart  == ((g.srcY + y) * w + g.srcX) * 4
           destStart == ((g.destY + y) * w + g.destX) * 4
           len       == g.blockW * 4
           d1 == IF RowCopied(d, w, g, y)
                   THEN Eval([i \in DOMAIN d |->
                                IF i >= destStart /\ i < destStart + len
                                  THEN d[srcStart + (i - destStart)]
                                  ELSE d[i]])
                   ELSE d
       IN CopyBlockRows(d1, w, g, y + 1)

\* Blocks b, b+1, ..., of the pass; rs is the sequence of their draws.
RECURSIVE ShiftBlocks(_, _, _, _, _)
ShiftBlocks(d, w, h, rs, b) ==
  IF b > Len(rs) THEN d
  ELSE ShiftBlocks(CopyBlockRows(d, w, BlockGeometry(w, h, rs[b]), 0), w, h, rs, b + 1)

applyBlockShift(d, w, h, intensity, rs) ==
  IF intensity = 0 THEN d ELSE ShiftBlocks(d, w, h, rs, 1)

\* What the pass did, for each block: its geometry and the rows it copied
\* (as the buffer was when the block began).
RECURSIVE BlockLog(_, _, _, _, _)
BlockLog(d, w, h, rs, b) ==
  IF b > Len(rs) THEN <<>>
  ELSE LET g == BlockGeometry(w, h, rs[b])
       IN <<[geom |-> g,
             copied |-> {y \in 0..(g.blockH - 1) : RowCopied(d, w, g, y)}]>>
          \o BlockLog(CopyBlockRows(d, w, g, 0), w, h, rs, b + 1)

(* applyScanlines, lines 89-116. *)

\* lineSkip with the quotient rounded up.
LineSkipCeil(intensity) == 2 + ((11 - intensity) \div 2)

\* lineSkip = 2 + Math.floor((10 - intensity) / 2)
LineSkip(intensity) == 2 + ((10 - intensity) \div 2)

\* y % lineSkip === 0
ScanRow(y, intensity) ==
  LineSkip(intensity) # 0 /\ JsMod(y, LineSkip(intensity)) = 0

\* The pixels (indices) the pass visits.
ScanPixels(w, h, intensity) ==
  IF intensity = 0 THEN {}
  ELSE {p \in 0..(w * h - 1) : ScanRow(p \div w, intensity)}

Half == FDiv(FromInt(1), FromInt(2))

\* The double Math.random() returned for draw k.
RandomUnit(k) == FDiv(FromInt(k), FromInt(RandDen))

\* data[i] * factor as stored, factor = 0.5 + (10 - intensity) / 20; the
\* factor is negative beyond intensity 20 and the byte stored is 0.
Darkened(v, intensity) ==
  IF intensity > 20 THEN 0
  ELSE LET factor == IF intensity <= 10
                       THEN FAdd(Half, FDiv(FromInt(10 - intensity), FromInt(20)))
                       ELSE FSub(Half, FDiv(FromInt(intensity - 10), FromInt(20)))
       IN FToUint8Clamp(FMul(FromInt(v), factor))

\* Math.random() < noiseChance, noiseChance = intensity * 0.01
NoiseHit(c, intensity) ==
  /\ intensity > 0
  /\ FLt(RandomUnit(c), FMul(FromInt(intensity), FDiv(FromInt(1), FromInt(100))))

\* v + noise as stored, noise = (Math.random() - 0.5) * 50 for draw n.
Noised(v, n) ==
  IF ~FLt(RandomUnit(n), Half)
    THEN FToUint8Clamp(FAdd(FromInt(v), FMul(FSub(RandomUnit(n), Half), FromInt(50))))
    ELSE LET minus == FMul(FSub(Half, RandomUnit(n)), FromInt(50))
         IN IF FLt(FromInt(v), minus) THEN 0
            ELSE FToUint8Clamp(FSub(FromInt(v), minus))

\* The intensities the passes below are run with, and for them and every
\* byte and draw the three operators above, worked out once.
ScanIntensities == {2, 6, 9, 10}

DarkTable == Eval([s \in ScanIntensities |-> Eval([v \in Byte |-> Darkened(v, s)])])

HitTable == Eval([s \in ScanIntensities |-> Eval([c \in Draws |-> NoiseHit(c, s)])])

NoiseTable == Eval([n \in Draws |-> Eval([v \in Byte |-> Noised(v, n)])])

\* NoiseHit and Darkened, looked up where tabulated.
Hit(c, intensity) ==
  IF intensity \in ScanIntensities THEN HitTable[intensity][c]
  ELSE NoiseHit(c, intensity)

Dark(v, intensity) ==
  IF intensity \in ScanIntensities THEN DarkTable[intensity][v]
  ELSE Darkened(v, intensity)

\* The draws of one visited pixel: the chance draw c and, when it hits, the
\* noise draw n.
ScanDraws(intensity) ==
  {dr \in [c : Draws, n : Draws] : Hit(dr.c, intensity) \/ dr.n = 0}

\* One channel of a visited pixel: darkened and stored, then noise added
\* to the stored byte and stored again.
ScanChannel(v, intensity, dr) ==
  IF Hit(dr.c, intensity)
    THEN NoiseTable[dr.n][Dark(v, intensity)]
    ELSE Dark(v, intensity)

\* drs gives the draws of every visited pixel.
applyScanlines(d, w, h, intensity, drs) ==
  IF intensity = 0 THEN d
  ELSE [i \in DOMAIN d |->
          IF i % 4 # 3 /\ (i \div 4) \in ScanPixels(w, h, intensity)
            THEN ScanChannel(d[i], intensity, drs[i \div 4])
            ELSE d[i]]

(* applyPixelSort, lines 118-164. *)

\* rowsToSort = Math.floor(height * (threshold / 100))
RowsToSort(h, threshold) ==
  IF threshold <= 0 \/ h <= 0 THEN 0
  ELSE FFloor(FMul(FromInt(h), FDiv(FromInt(threshold), FromInt(100))))

\* data[idx] + data[idx+1] + data[idx+2] of column k of the row at rowStart
Brightness3(d, rowStart, k) ==
  d[rowStart + 4 * k] + d[rowStart + 4 * k + 1] + d[rowStart + 4 * k + 2]

\* rowIndices after the sort (Array.prototype.sort is stable): position i
\* holds the column that i columns precede.
SortedColumn(d, w, rowStart, i) ==
  CHOOSE k \in 0..(w - 1) :
    Cardinality({j \in 0..(w - 1) :
                   \/ Brightness3(d, rowStart, j) < Brightness3(d, rowStart, k)
                   \/ /\ Brightness3(d, rowStart, j) = Brightness3(d, rowStart, k)
                      /\ j < k}) = i

\* Lines 125-162 for row y.
SortRow(d, w, y) ==
  LET rowStart == (y * w) * 4
  IN Eval([i \in DOMAIN d |->
             IF i >= rowStart /\ i < rowStart + 4 * w
               THEN d[rowStart + 4 * SortedColumn(d, w, rowStart, (i - rowStart) \div 4)
                      + (i % 4)]
               ELSE d[i]])

\* Iterations r, r+1, ... of the loop; ys gives the row draw of each.
RECURSIVE SortRows(_, _, _, _, _)
SortRows(d, w, h, ys, r) ==
  IF r > Len(ys) THEN d
  ELSE SortRows(SortRow(d, w, randomInt(0, h - 1, ys[r])), w, h, ys, r + 1)

applyPixelSort(d, w, h, threshold, ys) ==
  IF threshold = 0 THEN d ELSE SortRows(d, w, h, ys, 1)

(* processImage, lines 166-182: the four calls, each handed its parameter. *)
SortPass(d, w, h, p, ys) == applyPixelSort(d, w, h, p.pixelSort, ys)

BlockPass(d, w, h, p, rs) == applyBlockShift(d, w, h, p.blockShift, rs)

RGBPassWrongParam(d, w, h, p) == applyRGBShift(d, w, h, p.scanlines)

RGBPass(d, w, h, p) == applyRGBShift(d, w, h, p.rgbShift)

ScanPass(d, w, h, p, drs) == applyScanlines(d, w, h, p.scanlines, drs)

----------------------------------------------------------------------------
(* SpecGlitch: processImage on small buffers, one step per sub-pass.       *)

GlitchDims ==
  {wh \in (1..MaxGlitchPixels) \X (1..MaxGlitchPixels) :
     wh[1] * wh[2] <= MaxGlitchPixels}

\* Two pictures of n pixels: one with every byte telling its position, one
\* with brightness falling and repeating along a row.
GlitchBuffers(n) ==
  { FromPixels([p \in 1..n |-> <<10 + p, 100 + p, 200 + p, 250 - p>>]),
    FromPixels([p \in 1..n |-> <<255 - 40 * (p % 3), (17 * p) % 256, 3, 128 + p>>]) }

GlitchRec(rgb, block, scan, sort) ==
  [rgbShift |-> rgb, blockShift |-> block, scanlines |-> scan, pixelSort |-> sort]

GlitchParamSet ==
  { GlitchRec(0, 0, 0, 0) }
  \cup { GlitchRec(o, 0, 0, 0) : o \in {1, 2, 3, 5, 50} }
  \cup { GlitchRec(0, 0, 0, 50), GlitchRec(0, 0, 0, 100),
         GlitchRec(0, 4, 0, 0),
         GlitchRec(0, 0, 2, 0), GlitchRec(0, 0, 10, 0),
         GlitchRec(0, 4, 2, 50), GlitchRec(5, 0, 2, 50),
         GlitchRec(5, 4, 0, 50), GlitchRec(5, 4, 2, 0),
         GlitchRec(5, 4, 2, 50) }

GlitchInit ==
  /\ \E wh \in GlitchDims :
       /\ width = wh[1]
       /\ height = wh[2]
       /\ data \in GlitchBuffers(wh[1] * wh[2])
  /\ before = data
  /\ orig = data
  /\ blocks = <<>>
  /\ PipeIdle
  /\ AuxIdle
  /\ params \in GlitchParamSet
  /\ phase = "init"

\* processImage line 173
GlitchSort ==
  /\ phase = "init"
  /\ \E ys \in [1..RowsToSort(height, params.pixelSort) -> Draws] :
       data' = Eval(SortPass(data, width, height, params, ys))
  /\ before' = data
  /\ phase' = "sorted"
  /\ UNCHANGED <<width, height, params, orig, blocks, pipeVars, auxVars>>

\* processImage line 174
GlitchBlock ==
  /\ phase = "sorted"
  /\ \E rs \in [1..NumBlocks(params.blockShift) -> BlockDraws] :
       data' = Eval(BlockPass(data, width, height, params, rs))
  /\ before' = data
  /\ phase' = "shifted"
  /\ UNCHANGED <<width, height, params, orig, blocks, pipeVars, auxVars>>

\* processImage line 175
GlitchRGB ==
  /\ phase = "shifted"
  /\ data' = Eval(RGBPass(data, width, height, params))
  /\ before' = data
  /\ phase' = "rgb"
  /\ UNCHANGED <<width, height, params, orig, blocks, pipeVars, auxVars>>

\* processImage line 176
GlitchScan ==
  /\ phase = "rgb"
  /\ \E drs \in [ScanPixels(width, height, params.scanlines)
                   -> ScanDraws(params.scanlines)] :
       data' = Eval(ScanPass(data, width, height, params, drs))
  /\ before' = data
  /\ phase' = "done"
  /\ UNCHANGED <<width, height, params, orig, blocks, pipeVars, auxVars>>

GlitchNext == GlitchSort \/ GlitchBlock \/ GlitchRGB \/ GlitchScan

SpecGlitch == GlitchInit /\ [][GlitchNext]_vars

----------------------------------------------------------------------------
(* SpecBlock: applyBlockShift alone, on buffers narrower than a block, as  *)
(* wide as one, and wider.                                                 *)

BlockDims == {<<4, 4>>, <<6, 4>>, <<8, 3>>, <<10, 3>>, <<40, 3>>, <<44, 2>>}

\* Every byte tells its position.
BlockBuffer(n) == [i \in 0..(4 * n - 1) |-> i % 256]

BlockInit ==
  /\ \E wh \in BlockDims :
       /\ width = wh[1]
       /\ height = wh[2]
       /\ data = BlockBuffer(wh[1] * wh[2])
  /\ before = data
  /\ orig = data
  /\ blocks = <<>>
  /\ PipeIdle
  /\ AuxIdle
  /\ params = GlitchRec(0, 4, 0, 0)
  /\ phase = "init"

BlockApply ==
  /\ phase = "init"
  /\ \E rs \in [1..NumBlocks(params.blockShift) -> BlockDraws] :
       /\ data' = Eval(applyBlockShift(data, width, height, params.blockShift, rs))
       /\ blocks' = BlockLog(data, width, height, rs, 1)
  /\ before' = data
  /\ phase' = "shifted"
  /\ UNCHANGED <<width, height, params, orig, pipeVars, auxVars>>

BlockNext == BlockApply

SpecBlock == BlockInit /\ [][BlockNext]_vars

----------------------------------------------------------------------------
(* The chroma key, chromaKeyAlgorithms.ts 3-73.  A string is the sequence  *)
(* of its characters; similarity, smoothness and spill are given in        *)
(* hundredths, the double being the one nearest to k / 100.                *)

\* The one element of a one-element set.
Only(S) == CHOOSE x \in S : TRUE

HexLower == <<"0", "1", "2", "3", "4", "5", "6", "7", "8", "9",
              "a", "b", "c", "d", "e", "f">>

HexUpper == <<"0", "1", "2", "3", "4", "5", "6", "7", "8", "9",
              "A", "B", "C", "D", "E", "F">>

\* Whether c matches [a-f\d] under the i flag.
IsHexDigit(c) == \E i \in 1..16 : HexLower[i] = c \/ HexUpper[i] = c

\* parseInt of one hex digit
HexValue(c) == (CHOOSE i \in 1..16 : HexLower[i] = c \/ HexUpper[i] = c) - 1

\* parseInt(two digits, 16)
ParseHexPair(a, b) == 16 * HexValue(a) + HexValue(b)

\* hexToRgb with the regular expression taken without its i flag.
hexToRgbLowerOnly(hex) ==
  LET body == IF Len(hex) > 0 /\ hex[1] = "#" THEN Tail(hex) ELSE hex IN
  IF Len(body) = 6 /\ \A i \in 1..6 : \E j \in 1..16 : HexLower[j] = body[i]
    THEN [r |-> ParseHexPair(body[1], body[2]),
          g |-> ParseHexPair(body[3], body[4]),
          b |-> ParseHexPair(body[5], body[6])]
    ELSE [r |-> 0, g |-> 255, b |-> 0]

\* hexToRgb, lines 4-11
hexToRgb(hex) ==
  LET body == IF Len(hex) > 0 /\ hex[1] = "#" THEN Tail(hex) ELSE hex IN
  IF Len(body) = 6 /\ \A i \in 1..6 : IsHexDigit(body[i])
    THEN [r |-> ParseHexPair(body[1], body[2]),
          g |-> ParseHexPair(body[3], body[4]),
          b |-> ParseHexPair(body[5], body[6])]
    ELSE [r |-> 0, g |-> 255, b |-> 0]

\* The double a parameter of k hundredths is.
Hundredths(k) == FDiv(FromInt(k), FromInt(100))

\* Lines 22-31: what the loop reads from the parameters.
ChromaConsts(p) ==
  LET distThreshold == FMul(Hundredths(p.similarity), FromInt(442))
      smoothRange   == FMul(Hundredths(p.smoothness), FromInt(100))
      tSq           == FMul(distThreshold, distThreshold)
  IN [target          |-> hexToRgb(p.keyColor),
      distThresholdSq |-> tSq,
      bandSq          |-> FAdd(tSq, FMul(smoothRange, smoothRange)),
      smoothRange     |-> smoothRange,
      spill           |-> Hundredths(p.spill)]

\* Lines 40-47
DistSq(d, px, target) ==
  LET dr == d[px] - target.r
      dg == d[px + 1] - target.g
      db == d[px + 2] - target.b
  IN dr * dr + dg * dg + db * db

\* Lines 49 and 52: which branch a pixel at squared distance distSq takes.
ChromaClassInclusive(distSq, k) ==
  IF ~FLt(k.distThresholdSq, FromInt(distSq)) THEN "clear"
  ELSE IF ~BigIsZero(k.smoothRange.m) /\ FLt(FromInt(distSq), k.bandSq) THEN "ramp"
  ELSE "keep"

ChromaClass(distSq, k) ==
  IF FLt(FromInt(distSq), k.distThresholdSq) THEN "clear"
  ELSE IF ~BigIsZero(k.smoothRange.m) /\ FLt(FromInt(distSq), k.bandSq) THEN "ramp"
  ELSE "keep"

\* Lines 56-58 and 68: alpha * 255 as stored
RampAlpha(distSq, k) ==
  LET dist  == FSqrt(FromInt(distSq))
      base  == FSqrt(k.distThresholdSq)
      alpha == FDiv(FSub(dist, base), k.smoothRange)
  IN FToUint8Clamp(FMul(alpha, FromInt(255)))

\* Lines 61-66: channel v of a pixel (r, g, b) after spill suppression
SpillChannel(v, r, g, b, k) ==
  IF BigIsZero(k.spill.m) THEN v
  ELSE LET gray == FAdd(FAdd(FMul(FromInt(r), FDiv(FromInt(299), FromInt(1000))),
                             FMul(FromInt(g), FDiv(FromInt(587), FromInt(1000)))),
                        FMul(FromInt(b), FDiv(FromInt(114), FromInt(1000))))
       IN FToUint8Clamp(FAdd(FMul(FromInt(v), FSub(FromInt(1), k.spill)),
                             FMul(gray, k.spill)))

\* Byte i of the frame after the loop.
ChromaByte(d, i, k) ==
  LET px    == i - (i % 4)
      dsq   == DistSq(d, px, k.target)
      class == ChromaClass(dsq, k)
  IN IF class = "clear" THEN (IF i % 4 = 3 THEN 0 ELSE d[i])
     ELSE IF class = "ramp"
       THEN IF i % 4 = 3 THEN RampAlpha(dsq, k)
            ELSE SpillChannel(d[i], d[px], d[px + 1], d[px + 2], k)
     ELSE d[i]

\* applyChromaKey, lines 13-73, on the bytes of the frame
applyChromaKey(d, p) ==
  IF ~p.enabled THEN d
  ELSE Only({ Eval([i \in DOMAIN d |-> ChromaByte(d, i, k)]) : k \in {ChromaConsts(p)} })

----------------------------------------------------------------------------
(* SpecChroma: applyChromaKey once on a small frame.                       *)

\* The key itself, the fallback key, and pixels at squared distance 49, 29
\* and far from the key.
ChromaPalette ==
  << <<255, 0, 128, 200>>, <<0, 255, 0, 90>>, <<255, 7, 128, 255>>,
     <<250, 0, 130, 240>>, <<10, 20, 30, 255>> >>

KeyColors ==
  { <<"#", "f", "f", "0", "0", "8", "0">>,
    <<"F", "F", "0", "0", "8", "0">>,
    <<"g", "r", "e", "e", "n">> }

ChromaParamSet ==
  [enabled : BOOLEAN, keyColor : KeyColors, similarity : {0, 1, 40},
   smoothness : {0, 7}, spill : {0, 50}]

ChromaInit ==
  /\ \E n \in 1..MaxChromaPixels :
       \E pxs \in SeqsOfLen(1..Len(ChromaPalette), n) :
         data = FromPixels([j \in 1..n |-> ChromaPalette[pxs[j]]])
  /\ before = data
  /\ orig = data
  /\ blocks = <<>>
  /\ PipeIdle
  /\ AuxIdle
  /\ width = Length(data) \div 4
  /\ height = 1
  /\ params \in ChromaParamSet
  /\ phase = "init"

ChromaApply ==
  /\ phase = "init"
  /\ data' = applyChromaKey(data, params)
  /\ before' = data
  /\ phase' = "once"
  /\ UNCHANGED <<width, height, params, orig, blocks, pipeVars, auxVars>>

ChromaNext == ChromaApply

SpecChroma == ChromaInit /\ [][ChromaNext]_vars

----------------------------------------------------------------------------
(* SpecDims: the output size of renderCanvas for one source size.          *)

SmallEdges == {1, 2, 1000, 2047, 2048}

LargeEdges == {2049, 2176, 3000, 4096, 5000}

OtherEdges == {1, 186, 1581, 2048, 2049, 4096}

DimSources ==
  (SmallEdges \X SmallEdges) \cup (LargeEdges \X OtherEdges)
    \cup (OtherEdges \X LargeEdges)

DimsInit ==
  /\ \E wh \in DimSources :
       refs = [originalImgRef |-> ImageEl(TRUE, wh[1], wh[1], wh[2])]
  /\ app = [appMode |-> "IMAGE"]
  /\ canvas = [width |-> 0, height |-> 0, ops |-> <<>>]
  /\ calls = <<>>
  /\ saved = canvas
  /\ width = 0
  /\ height = 0
  /\ phase = "init"
  /\ data = NoData
  /\ before = NoData
  /\ orig = NoData
  /\ blocks = <<>>
  /\ params = [threshold |-> 0]
  /\ AuxIdle

\* App.tsx 271-285
DimsCompute ==
  /\ phase = "init"
  /\ \E wh \in {OutputDims(refs.originalImgRef.w, refs.originalImgRef.h)} :
       width' = wh[1] /\ height' = wh[2]
  /\ phase' = "sized"
  /\ UNCHANGED <<bufVars, pipeVars, auxVars>>

DimsNext == DimsCompute

SpecDims == DimsInit /\ [][DimsNext]_vars

----------------------------------------------------------------------------
(* SpecThreshold: applyThreshold applied once, then once more with the     *)
(* same threshold, to every buffer of a small palette.                     *)

\* Pixels around the thresholds below: sums 0, 382, 383, 384, 385, 765,
\* with opaque, translucent and transparent alpha.
ThreshPalette ==
  { <<0, 0, 0, 255>>, <<127, 127, 128, 255>>, <<127, 127, 129, 7>>,
    <<127, 128, 129, 0>>, <<129, 128, 128, 255>>, <<255, 255, 255, 200>>,
    <<1, 1, 1, 255>>, <<254, 255, 255, 255>> }

ThreshValues == {-5, 0, 1, 128, 255, 256}

ThreshInit ==
  /\ \E n \in 1..MaxThreshPixels :
       \E pxs \in SeqsOfLen(ThreshPalette, n) :
         \E w \in 1..n :
           /\ n % w = 0
           /\ width = w
           /\ height = n \div w
           /\ data = FromPixels(pxs)
  /\ before = data
  /\ orig = data
  /\ blocks = <<>>
  /\ PipeIdle
  /\ AuxIdle
  /\ params \in [threshold : ThreshValues]
  /\ phase = "init"

\* First call: applyThreshold(imgData.data, globalParams.threshold).
ThreshApply ==
  /\ phase = "init"
  /\ before' = data
  /\ data' = applyThreshold(data, params.threshold)
  /\ phase' = "once"
  /\ UNCHANGED <<width, height, params, orig, blocks, pipeVars, auxVars>>

\* Second call on the result, same threshold.
ThreshApplyAgain ==
  /\ phase = "once"
  /\ before' = data
  /\ data' = applyThreshold(data, params.threshold)
  /\ phase' = "twice"
  /\ UNCHANGED <<width, height, params, orig, blocks, pipeVars, auxVars>>

ThreshNext == ThreshApply \/ ThreshApplyAgain

SpecThreshold == ThreshInit /\ [][ThreshNext]_vars

----------------------------------------------------------------------------
(* C5: applyThreshold with threshold > 0 sets R, G and B of every pixel to *)
(* 255 when (R+G+B)/3 >= threshold and to 0 otherwise, leaves every alpha  *)
(* byte as it was, and with threshold <= 0 leaves the whole buffer as it   *)
(* was.  (before is the buffer the first call received.)                   *)
C5_ThresholdBinary ==
  phase = "once" =>
    /\ DOMAIN data = DOMAIN before
    /\ params.threshold <= 0 => data = before
    /\ params.threshold > 0 =>
         \A p \in 0..(width * height - 1) :
           LET sum == before[4 * p] + before[4 * p + 1] + before[4 * p + 2]
               val == IF sum >= 3 * params.threshold THEN 255 ELSE 0
           IN /\ data[4 * p] = val
              /\ data[4 * p + 1] = val
              /\ data[4 * p + 2] = val
              /\ data[4 * p] \in {0, 255}
              /\ data[4 * p + 3] = before[4 * p + 3]

\* A pixel whose brightness is exactly the threshold became white, another
\* became black, and a non-opaque alpha survived.
C5_Witness ==
  /\ phase = "once"
  /\ params.threshold = 128
  /\ \E p \in 0..(width * height - 1) :
       /\ before[4 * p] + before[4 * p + 1] + before[4 * p + 2] = 384
       /\ PixelAt(data, p) = <<255, 255, 255, 0>>
  /\ \E p \in 0..(width * height - 1) :
       /\ before[4 * p] + before[4 * p + 1] + before[4 * p + 2] = 383
       /\ PixelAt(data, p) = <<0, 0, 0, 7>>

(* C6: applyThreshold is idempotent: the second application with the same  *)
(* threshold leaves the buffer exactly as the first one left it.           *)
C6_ThresholdIdempotent ==
  phase = "twice" => data = before

\* The second application ran on a buffer the first one had changed, with a
\* white and a black pixel in it.
C6_Witness ==
  /\ phase = "twice"
  /\ params.threshold = 128
  /\ data = before
  /\ \E p \in 0..(width * height - 1) : data[4 * p] = 255
  /\ \E p \in 0..(width * height - 1) : data[4 * p] = 0

----------------------------------------------------------------------------
(* Claims about the glitch passes. *)

AllZero(p) ==
  p.rgbShift = 0 /\ p.blockShift = 0 /\ p.scanlines = 0 /\ p.pixelSort = 0

\* C7: each of the four sub-passes leaves the buffer as it found it when
\* its own parameter is 0, whatever the other three are, and processImage
\* with all four parameters 0 leaves every byte as it was at the start.
C7_NeutralIsIdentity ==
  /\ (phase = "sorted" /\ params.pixelSort = 0) => data = before
  /\ (phase = "shifted" /\ params.blockShift = 0) => data = before
  /\ (phase = "rgb" /\ params.rgbShift = 0) => data = before
  /\ (phase = "done" /\ params.scanlines = 0) => data = before
  /\ (phase = "done" /\ AllZero(params)) => data = orig

\* The scanline pass has run with parameter 0 after other passes changed
\* the picture.
C7_Witness ==
  /\ phase = "done"
  /\ params.scanlines = 0
  /\ params.pixelSort # 0
  /\ params.rgbShift # 0
  /\ data = before
  /\ data # orig

\* C8: after the channel shift with offset in 1..50 the red byte of pixel
\* (x, y) is the red byte pixel ((x + offset) mod W, y) had before the pass,
\* and green, blue and alpha of every pixel are as before.
C8_RedShiftedOthersKept ==
  (phase = "rgb" /\ params.rgbShift \in 1..50) =>
    \A x \in 0..(width - 1), y \in 0..(height - 1) :
      LET i == (y * width + x) * 4
          j == (y * width + ((x + params.rgbShift) % width)) * 4
      IN /\ data[i] = before[j]
         /\ data[i + 1] = before[i + 1]
         /\ data[i + 2] = before[i + 2]
         /\ data[i + 3] = before[i + 3]

\* A shift that moved red bytes across a row of several pixels.
C8_Witness ==
  /\ phase = "rgb"
  /\ params.rgbShift \in 1..50
  /\ width >= 3
  /\ data # before

\* C9: for every block row the block-displacement pass copies, the
\* destination rectangle lies within the buffer: destX >= 0, destY >= 0,
\* destX + blockW <= W and destY + blockH <= H.
C9_DestInBounds ==
  phase = "shifted" =>
    \A b \in DOMAIN blocks :
      blocks[b].copied # {} =>
        LET g == blocks[b].geom
        IN /\ g.destX >= 0
           /\ g.destY >= 0
           /\ g.destX + g.blockW <= width
           /\ g.destY + g.blockH <= height

----------------------------------------------------------------------------
(* Claims about renderCanvas. *)

\* The optional stages an invocation has invoked, in the order it did.
StagesRun ==
  LET opt == SelectSeq(calls, LAMBDA c : c.stage \in LayerSet)
  IN [i \in DOMAIN opt |-> opt[i].stage]

\* The optional stages whose flag is set, in pipeline order.
StagesFlagged == SelectSeq(Stages, LAMBDA t : app.activeLayers[t])

\* C1: when an invocation that got to the pipeline has ended, the optional
\* stages it ran are exactly the flagged ones, in pipeline order.
C1_FlaggedStagesRunInOrder ==
  phase \in {"done", "threw"} => StagesRun = StagesFlagged

\* C2: no stage (nor the threshold pass) is invoked with a width or a
\* height smaller than 1.
C2_NoDegenerateStage ==
  \A i \in DOMAIN calls : calls[i].w >= 1 /\ calls[i].h >= 1

\* No source, a video with readyState < 2, or an image that is not
\* complete or has naturalWidth 0.
C4_NotReady(s) ==
  \/ s.kind = "null"
  \/ s.kind = "video" /\ s.readyState < 2
  \/ s.kind = "image" /\ (~s.complete \/ s.naturalWidth = 0)

\* C4: an invocation on a source that is not ready is skipped: no stage is
\* invoked and the canvas, its size and its content, stays as it was.
C4_NotReadySkipped ==
  (phase \in {"skipped", "threshold", "blend", "text", "glitch", "halftone",
              "ascii", "done", "threw"}
   /\ C4_NotReady(SelectSource(app, refs)))
    => (phase = "skipped" /\ calls = <<>> /\ canvas = saved)

\* An invocation skipped for a broken image, with layers on and an earlier
\* frame on the canvas.
C4_Witness ==
  /\ phase = "skipped"
  /\ app.activeTab # "AI"
  /\ app.activeLayers["MANUAL"]
  /\ SelectSource(app, refs).kind = "image"
  /\ SelectSource(app, refs).complete
  /\ SelectSource(app, refs).naturalWidth = 0
  /\ canvas.ops # <<>>
  /\ canvas = saved

----------------------------------------------------------------------------
(* Claims about the output size and the chroma key. *)

\* C3: the output size is the source size when both edges are at most
\* 2048; otherwise the longer edge is 2048 and the shorter edge is
\* floor(2048 * shorter / longer); in both cases max(W, H) <= 2048.
C3_CapFormula ==
  phase = "sized" =>
    LET w == refs.originalImgRef.w
        h == refs.originalImgRef.h
    IN /\ Max(width, height) <= 2048
       /\ (w <= 2048 /\ h <= 2048) => (width = w /\ height = h)
       /\ (w > 2048 \/ h > 2048) =>
            IF w > h THEN width = 2048 /\ height = (2048 * h) \div w
                     ELSE height = 2048 /\ width = (2048 * w) \div h

\* The pixels (first byte index) of the frame that had the key colour.
KeyPixels ==
  {px \in DOMAIN before :
     /\ px % 4 = 0
     /\ before[px] = hexToRgb(params.keyColor).r
     /\ before[px + 1] = hexToRgb(params.keyColor).g
     /\ before[px + 2] = hexToRgb(params.keyColor).b}

\* C10 as stated: enabled, every pixel of exactly the key colour ends with
\* alpha 0, whatever similarity, smoothness and spill are.
C10_KeyAlwaysTransparent ==
  (phase = "once" /\ params.enabled) =>
    \A px \in KeyPixels : data[px + 3] = 0

\* C10 amended: enabled, every pixel of exactly the key colour ends with
\* alpha 0 whenever similarity > 0 or smoothness > 0, for every spill; with
\* similarity = 0 and smoothness = 0 the frame is left as it was.
C10_KeyTransparentUnlessBothZero ==
  (phase = "once" /\ params.enabled) =>
    IF params.similarity > 0 \/ params.smoothness > 0
      THEN \A px \in KeyPixels : data[px + 3] = 0
      ELSE data = before

\* A key-coloured pixel made transparent by the ramp alone (similarity 0),
\* with spill suppression on.
C10_Witness ==
  /\ phase = "once"
  /\ params.enabled
  /\ params.similarity = 0
  /\ params.smoothness > 0
  /\ params.spill > 0
  /\ \E px \in KeyPixels : before[px + 3] # 0 /\ data[px + 3] = 0

----------------------------------------------------------------------------
(* renderBlend, glitchAlgorithms.ts 185-299.  target is srcData.data, the  *)
(* snapshot of the canvas; blend is blendData, the second source as drawn  *)
(* on the helper canvas at the size of the canvas.  The parameters are the *)
(* sliders' values: integers, mix and scale not negative.                  *)

\* Blend buffers of 1..MaxBlendPixels pixels are exercised.
MaxBlendPixels == 3

\* Line 217: mix = params.mix / 100
BlendMix(p) == FDiv(FromInt(p.mix), FromInt(100))

\* Line 222: mix255 = mix * 255
Mix255(p) == FMul(BlendMix(p), FromInt(255))

\* Line 223: rowHeight = Math.max(1, Math.floor(params.scale / 10))
RowHeight(p) == Max(1, FFloor(FDiv(FromInt(p.scale), FromInt(10))))

\* Line 284: useImg2 = Math.floor(y / rowHeight) % 2 === 0
UseImg2(y, rowHeight) == FFloor(FDiv(FromInt(y), FromInt(rowHeight))) % 2 = 0

\* Line 285, second conjunct: mix > 0.1
MixAboveTenth(p) == FLt(FDiv(FromInt(1), FromInt(10)), BlendMix(p))

\* Lines 283-285: the rows the interlace loop copies.
InterlaceRows(h, p) ==
  IF MixAboveTenth(p)
    THEN Only({ {y \in 0..(h - 1) : UseImg2(y, rh)} : rh \in {RowHeight(p)} })
    ELSE {}

\* Lines 282-296: interlace on odd bands instead of even ones.
BlendInterlaceOddBands(target, blend, w, h, p) ==
  Only({ Eval([j \in DOMAIN target |->
                 IF (j \div (4 * w)) \notin rows /\ MixAboveTenth(p)
                   THEN blend[j] ELSE target[j]])
         : rows \in {InterlaceRows(h, p)} })

\* Lines 282-296
BlendInterlace(target, blend, w, h, p) ==
  Only({ Eval([j \in DOMAIN target |->
                 IF (j \div (4 * w)) \in rows THEN blend[j] ELSE target[j]])
         : rows \in {InterlaceRows(h, p)} })

\* Lines 235-236: Math.floor(((v / 127.5) - 1) * displacementScale)
DisplaceShift(v, ds) ==
  Only({ IF ~FLt(q, one) THEN FFloor(FMul(FSub(q, one), FromInt(ds)))
         ELSE Only({ Only({ IF FLt(FromInt(f), m) THEN 0 - (f + 1) ELSE 0 - f
                            : f \in {FFloor(m)} })
                     : m \in {FMul(FSub(one, q), FromInt(ds))} })
         : q \in {FDiv(FromInt(v), FDiv(FromInt(255), FromInt(2)))},
           one \in {FromInt(1)} })

\* Lines 247-248
ClampCoord(c, n) == IF c < 0 THEN 0 ELSE IF c >= n THEN n - 1 ELSE c

\* Lines 239-250: srcIdx of the pixel with index px.
DisplaceSrcIdx(blend, w, h, p, px) ==
  Only({ (ClampCoord(((px - x) \div w) + DisplaceShift(blend[4 * px + 1], p.scale * 2), h)
            * w
          + ClampCoord(x + DisplaceShift(blend[4 * px], p.scale * 2), w)) * 4
         : x \in {px % w} })

\* Line 252: Math.random() > (1 - mix), for the draws k.
DisplaceHits(p) ==
  Only({ {k \in Draws : FLt(t, RandomUnit(k))}
         : t \in {FSub(FromInt(1), BlendMix(p))} })

\* The displacement loop from pixel px on, reading from the array it writes.
RECURSIVE DisplaceFrom(_, _, _, _, _, _, _)
DisplaceFrom(t, blend, w, h, p, rs, px) ==
  IF px >= w * h THEN t
  ELSE DisplaceFrom(
         Only({ Eval([i \in DOMAIN t |->
                        IF i \div 4 = px /\ i % 4 # 3 /\ rs[px] \in DisplaceHits(p)
                          THEN t[src + (i % 4)] ELSE t[i]])
                : src \in {DisplaceSrcIdx(blend, w, h, p, px)} }),
         blend, w, h, p, rs, px + 1)

\* Lines 226-258 without the copy of line 228.
BlendDisplacementInPlace(target, blend, w, h, p, rs) ==
  DisplaceFrom(target, blend, w, h, p, rs, 0)

\* Lines 226-258; buffer is the copy of targetData taken at line 228.
BlendDisplacement(target, blend, w, h, p, rs) ==
  Only({ Eval([i \in DOMAIN target |->
                 IF i % 4 # 3 /\ rs[i \div 4] \in hits
                   THEN buffer[src[i \div 4] + (i % 4)]
                   ELSE target[i]])
         : buffer \in {target},
           hits \in {DisplaceHits(p)},
           src \in {Eval([px \in 0..(w * h - 1) |->
                            DisplaceSrcIdx(blend, w, h, p, px)])} })

\* Math.abs(a - b)
Abs(n) == IF n < 0 THEN 0 - n ELSE n

\* Line 263: Math.random() < mix, for the draws k.
DifferenceHits(p) ==
  Only({ {k \in Draws : FLt(RandomUnit(k), mix)} : mix \in {BlendMix(p)} })

\* Lines 259-270 with Math.abs left out: a negative difference is stored
\* as 0.
BlendDifferenceSigned(target, blend, p, rs) ==
  IF p.mix > 0
    THEN Only({ Eval([i \in DOMAIN target |->
                        IF i % 4 # 3 /\ rs[i \div 4] \in hits
                          THEN Max(0, target[i] - blend[i])
                          ELSE target[i]])
                : hits \in {DifferenceHits(p)} })
    ELSE target

\* Lines 259-270
BlendDifference(target, blend, p, rs) ==
  IF p.mix > 0
    THEN Only({ Eval([i \in DOMAIN target |->
                        IF i % 4 # 3 /\ rs[i \div 4] \in hits
                          THEN Abs(target[i] - blend[i])
                          ELSE target[i]])
                : hits \in {DifferenceHits(p)} })
    ELSE target

\* Lines 273-279 with the average rounded up instead of shifted right.
HardMixChannelCeil(t, b, thresh, mix255) ==
  LET r == (t + b + 1) \div 2
  IN IF r > thresh THEN FToUint8Clamp(FAdd(FromInt(r), mix255))
     ELSE IF FLt(FromInt(r), mix255) THEN 0
     ELSE FToUint8Clamp(FSub(FromInt(r), mix255))

\* Lines 273-279, one channel: the byte stored for target byte t and blend
\* byte b.
HardMixChannel(t, b, thresh, mix255) ==
  LET r == (t + b) \div 2
  IN IF r > thresh THEN FToUint8Clamp(FAdd(FromInt(r), mix255))
     ELSE IF FLt(FromInt(r), mix255) THEN 0
     ELSE FToUint8Clamp(FSub(FromInt(r), mix255))

\* Lines 271-281
BlendHardMix(target, blend, p) ==
  Only({ Eval([i \in DOMAIN target |->
                 IF i % 4 # 3
                   THEN HardMixChannel(target[i], blend[i], p.threshold, m)
                   ELSE target[i]])
         : m \in {Mix255(p)} })

\* Lines 200-298: the buffer put back on the canvas, or, when the function
\* returns at line 203, the canvas as it was.
renderBlend(target, img2, blend, w, h, p, rs) ==
  IF img2.kind = "null" THEN target
  ELSE IF p.mode = "displacement" THEN BlendDisplacement(target, blend, w, h, p, rs)
  ELSE IF p.mode = "difference" THEN BlendDifference(target, blend, p, rs)
  ELSE IF p.mode = "hard-mix" THEN BlendHardMix(target, blend, p)
  ELSE IF p.mode = "interlace" THEN BlendInterlace(target, blend, w, h, p)
  ELSE target

----------------------------------------------------------------------------
(* SpecBlend: one call of renderBlend on a small canvas, as App.tsx 347-353 *)
(* makes it.  refs.blendRef is the second source; blendData is the raster  *)
(* the helper canvas gives once the second source has been drawn on it     *)
(* (all zero when the element has no frame to draw yet).                   *)

BlendDims ==
  {wh \in (1..MaxBlendPixels) \X (1..MaxBlendPixels) :
     wh[1] * wh[2] <= MaxBlendPixels}
  \cup {<<0, 2>>, <<2, 0>>}

BlendTargets(n) ==
  { FromPixels([q \in 1..n |-> <<10 + q, 100 + q, 200 + q, 250 - q>>]),
    FromPixels([q \in 1..n |-> <<255 - 40 * (q % 3), (17 * q) % 256, 3, 128 + q>>]) }

BlendRasters(n) ==
  { FromPixels([q \in 1..n |-> <<255 * (q % 2), 128 + q, 30 * q, 255>>]),
    FromPixels([q \in 1..n |-> <<20 + q, 255 - 127 * ((q - 1) % 3), 210, 90 + q>>]) }

\* A raster nothing was drawn on.
ClearRaster(n) == FromPixels([q \in 1..n |-> <<0, 0, 0, 0>>])

\* The second sources, each with the rasters it can give at n pixels: none,
\* a loaded image, a playing video, a video that has no frame yet.
BlendSecondSources(n) ==
  ({NullRef} \X {ClearRaster(n)})
    \cup ({ImageEl(TRUE, 5, 5, 4), VideoEl(4, 6, 2)} \X BlendRasters(n))
    \cup ({VideoEl(0, 0, 0)} \X {ClearRaster(n)})

BlendRec(mode, mix, threshold, scale) ==
  [mode |-> mode, mix |-> mix, threshold |-> threshold, scale |-> scale]

BlendParamSet ==
  { BlendRec("interlace", 50, 128, 20), BlendRec("interlace", 11, 128, 20),
    BlendRec("interlace", 10, 128, 20), BlendRec("interlace", 0, 128, 20),
    BlendRec("interlace", 50, 128, 5), BlendRec("interlace", 50, 128, 10),
    BlendRec("interlace", 100, 128, 2),
    BlendRec("displacement", 50, 128, 20), BlendRec("displacement", 100, 128, 1),
    BlendRec("displacement", 0, 128, 20), BlendRec("displacement", 100, 128, 0),
    BlendRec("difference", 0, 128, 20), BlendRec("difference", 50, 128, 20),
    BlendRec("difference", 100, 128, 20),
    BlendRec("hard-mix", 0, 128, 20), BlendRec("hard-mix", 50, 128, 20),
    BlendRec("hard-mix", 100, 128, 20), BlendRec("hard-mix", 100, 0, 20),
    BlendRec("hard-mix", 20, 255, 20), BlendRec("hard-mix", 30, 100, 20) }

BlendInit ==
  /\ \E wh \in BlendDims :
       /\ width = wh[1]
       /\ height = wh[2]
       /\ data \in BlendTargets(wh[1] * wh[2])
       /\ \E sr \in BlendSecondSources(wh[1] * wh[2]) :
            /\ refs = [blendRef |-> sr[1]]
            /\ blendData = sr[2]
  /\ grid = NoGrid
  /\ loop = NoLoop
  /\ dots = {}
  /\ raf = NoRaf
  /\ localStorage = NoStorage
  /\ clock = 0
  /\ before = data
  /\ orig = data
  /\ blocks = <<>>
  /\ app = [appMode |-> "IMAGE"]
  /\ canvas = [width |-> width, height |-> height, ops |-> <<"base">>]
  /\ calls = <<>>
  /\ saved = canvas
  /\ params \in BlendParamSet
  /\ phase = "init"

\* renderBlend(ctx, canvas, secondSource, w, h, blendParams, ...): line 200
\* throws on a canvas without pixels, line 203 returns when there is no
\* second source, line 298 puts the blended buffer back.
BlendApply ==
  /\ phase = "init"
  /\ before' = data
  /\ IF Degenerate(width, height)
       THEN phase' = "threw" /\ data' = data
       ELSE /\ \E rs \in [0..(width * height - 1) -> Draws] :
                 data' = renderBlend(data, refs.blendRef, blendData,
                                     width, height, params, rs)
            /\ phase' = IF refs.blendRef.kind = "null" THEN "returned" ELSE "done"
  /\ UNCHANGED <<width, height, params, orig, blocks, pipeVars, blendData, localStorage, clock, grid, loop, dots, raf>>

BlendNext == BlendApply

SpecBlend == BlendInit /\ [][BlendNext]_vars

----------------------------------------------------------------------------
(* C11: in interlace mode, with rowHeight = max(1, floor(scale/10)): when  *)
(* mix > 10 every row whose band floor(y/rowHeight) is even holds source   *)
(* B's bytes (all four channels) and every row of an odd band is as it     *)
(* was; when mix <= 10 the whole buffer is as it was.                      *)

RowBytes(y, w) == (4 * w * y)..(4 * w * (y + 1) - 1)

C11_Interlaced ==
  (phase = "done" /\ params.mode = "interlace") =>
    LET rowHeight == IF params.scale \div 10 > 1 THEN params.scale \div 10 ELSE 1
    IN IF params.mix > 10
         THEN \A y \in 0..(height - 1) :
                \A j \in RowBytes(y, width) :
                  data[j] = IF (y \div rowHeight) % 2 = 0
                              THEN blendData[j] ELSE before[j]
         ELSE data = before

\* Both an even and an odd band exist, bands are two rows high, and the
\* even band was replaced by bytes that differ from the old ones.
C11_Witness ==
  /\ phase = "done"
  /\ params.mode = "interlace"
  /\ params.mix = 50
  /\ params.scale = 20
  /\ height = 3
  /\ \A j \in RowBytes(1, width) : data[j] = blendData[j] /\ data[j] # before[j]
  /\ \A j \in RowBytes(2, width) : data[j] = before[j] /\ data[j] # blendData[j]

----------------------------------------------------------------------------
(* renderAscii up to its early return, chromaKeyAlgorithms.ts 83-124, and  *)
(* SpecAscii, which calls it once on canvases of several sizes.            *)

\* The literal 1.6 of line 102.
OnePointSix == FDiv(FromInt(16), FromInt(10))

\* Line 104: cols = Math.floor(width / fontWidth), fontWidth = scale > 0
AsciiCols(w, scale) == FFloor(FDiv(FromInt(w), FromInt(scale)))

\* Line 105: rows = Math.floor(height / fontHeight), fontHeight = scale * 1.6
AsciiRows(h, scale) ==
  FFloor(FDiv(FromInt(h), FMul(FromInt(scale), OnePointSix)))

\* Lines 101-105.  A negative scale gives quotients that are not positive
\* (recorded as -1, or 0 for the -0 of an empty canvas); scale 0 gives
\* Infinity or NaN, which are not finite and which getImageData takes as 0.
AsciiGrid(w, h, scale) ==
  IF scale > 0
    THEN [finite |-> TRUE, cols |-> AsciiCols(w, scale), rows |-> AsciiRows(h, scale)]
  ELSE IF scale < 0
    THEN [finite |-> TRUE, cols |-> IF w = 0 THEN 0 ELSE 0 - 1,
          rows |-> IF h = 0 THEN 0 ELSE 0 - 1]
  ELSE [finite |-> FALSE, cols |-> 0, rows |-> 0]

\* Line 107: cols <= 0 || rows <= 0 (false for Infinity and for NaN)
AsciiReturnsEarly(g) == g.finite /\ (g.cols <= 0 \/ g.rows <= 0)

AsciiWidths == {0, 3, 7, 8, 24, 640}

AsciiHeights == {0, 12, 13, 24, 48, 96, 480}

\* The slider gives 4..24; the function takes any number.
AsciiScales == {0 - 4, 0, 3, 4, 6, 8, 12, 24, 700}

AsciiInit ==
  /\ width \in AsciiWidths
  /\ height \in AsciiHeights
  /\ params \in [scale : AsciiScales]
  /\ canvas = [width |-> width, height |-> height, ops |-> <<"base">>]
  /\ saved = canvas
  /\ calls = <<>>
  /\ app = [appMode |-> "IMAGE"]
  /\ refs = [originalImgRef |-> NullRef]
  /\ data = NoData
  /\ before = NoData
  /\ orig = NoData
  /\ blocks = <<>>
  /\ AuxIdle
  /\ phase = "init"

\* renderAscii(ctx, canvas, w, h, asciiParams, ...): returns at line 107 on
\* an empty grid; getImageData of line 110 throws when the grid is not
\* finite (its size converts to 0); otherwise the background and the glyphs
\* are painted.
AsciiApply ==
  /\ phase = "init"
  /\ \E g \in {AsciiGrid(width, height, params.scale)} :
       /\ grid' = g
       /\ IF AsciiReturnsEarly(g) THEN phase' = "returned" /\ canvas' = canvas
          ELSE IF ~g.finite THEN phase' = "threw" /\ canvas' = canvas
          ELSE phase' = "done" /\ canvas' = Painted(canvas, "ascii")
  /\ UNCHANGED <<width, height, bufVars, app, refs, calls, saved, blendData, localStorage, clock,
                 loop, dots, raf>>

AsciiNext == AsciiApply

SpecAscii == AsciiInit /\ [][AsciiNext]_vars

----------------------------------------------------------------------------
(* C12: the Ascii grid is cols = floor(W/scale), rows = floor(H/(scale x   *)
(* 1.6)) (80 x 37 for 640 x 480 at scale 8), and on an empty grid          *)
(* renderAscii leaves the main canvas as it was.                           *)

C12_AsciiGrid ==
  (phase # "init" /\ params.scale > 0) =>
    /\ grid.cols = width \div params.scale
    /\ grid.rows = (10 * height) \div (16 * params.scale)
    /\ (width = 640 /\ height = 480 /\ params.scale = 8) =>
         (grid.cols = 80 /\ grid.rows = 37)
    /\ (grid.cols <= 0 \/ grid.rows <= 0) => (phase = "returned" /\ canvas = saved)

----------------------------------------------------------------------------
(* C13: with Blend, Text, Glitch, Halftone and Ascii all off, an           *)
(* invocation that runs to its end leaves on the canvas the base raster    *)
(* followed by the threshold pass and nothing else; for the white opaque   *)
(* 100 x 100 source and threshold 128 every byte of the buffer is 255.     *)

C13_Source == SelectSource(app, refs)

C13_BaseThenThreshold ==
  (phase = "done" /\ \A l \in LayerSet : ~app.activeLayers[l]) =>
    /\ canvas.ops = IF Degenerate(width, height) THEN <<>>
                    ELSE IF app.threshold > 0 THEN <<"base", "threshold">>
                    ELSE <<"base">>
    /\ data = applyThreshold(BaseRaster(C13_Source, width, height), app.threshold)
    /\ (C13_Source = ImageEl(TRUE, 100, 100, 100) /\ app.threshold = 128) =>
         /\ width = 100 /\ height = 100
         /\ Length(data) = 4 * 100 * 100
         /\ \A i \in DOMAIN data : data[i] = 255

C13_Witness ==
  /\ phase = "done"
  /\ \A l \in LayerSet : ~app.activeLayers[l]
  /\ C13_Source = ImageEl(TRUE, 100, 100, 100)
  /\ app.threshold = 128
  /\ canvas.ops = <<"base", "threshold">>
  /\ Length(data) = 4 * 100 * 100
  /\ \A i \in DOMAIN data : data[i] = 255

----------------------------------------------------------------------------
(* C14: renderBlend with no second source (img2 null) is a no-op in every  *)
(* blend mode and for every parameter value: it returns and no byte of the *)
(* working buffer has changed.                                             *)

C14_NullIsNoOp ==
  (phase # "init" /\ refs.blendRef.kind = "null") =>
    (phase = "returned" /\ data = before)

----------------------------------------------------------------------------
(* Signed doubles: a sign and a magnitude of the library above.            *)

SNum(neg, v) == [neg |-> neg, v |-> v]

\* The double n2 / 2 for an integer n2 (exact).
SFromHalves(n2) ==
  IF n2 < 0 THEN SNum(TRUE, FRound(BigFromInt(0 - n2), 0 - 1))
  ELSE SNum(FALSE, FRound(BigFromInt(n2), 0 - 1))

\* a * b
SMul(a, b) == SNum(a.neg # b.neg, FMul(a.v, b.v))

\* a + b
SAdd(a, b) ==
  IF a.neg = b.neg THEN SNum(a.neg, FAdd(a.v, b.v))
  ELSE IF FLt(a.v, b.v) THEN SNum(b.neg, FSub(b.v, a.v))
  ELSE IF FLt(b.v, a.v) THEN SNum(a.neg, FSub(a.v, b.v))
  ELSE SNum(FALSE, FZero)

\* a - b
SSub(a, b) == SAdd(a, SNum(~b.neg, b.v))

\* Math.floor(a), |a| < 2^31
SFloor(a) ==
  IF ~a.neg THEN FFloor(a.v)
  ELSE Only({ IF FLt(FromInt(f), a.v) THEN 0 - (f + 1) ELSE 0 - f
              : f \in {FFloor(a.v)} })

----------------------------------------------------------------------------
(* renderHalftone, chromaKeyAlgorithms.ts 169-251.  Coordinates are kept   *)
(* in half pixels (x2 = 2x): with an integer radius the step radius * 1.5  *)
(* and every lattice coordinate are multiples of 0.5 and exact as doubles. *)

\* Lines 191-193: Math.cos and Math.sin of angle * Math.PI / 180, as the
\* doubles the engine returns, for the angles 0, 45 and 90.
HalftoneAngles == {0, 45, 90}

HalftoneCos(angle) ==
  IF angle = 0 THEN SNum(FALSE, FromInt(1))
  ELSE IF angle = 45
    THEN SNum(FALSE, [m |-> <<15309, 19710, 633, 181>>, e |-> 0 - 53])
  ELSE SNum(FALSE, [m |-> <<23559, 26152, 6296, 141>>, e |-> 0 - 106])

HalftoneSin(angle) ==
  IF angle = 0 THEN SNum(FALSE, FZero)
  ELSE IF angle = 45
    THEN SNum(FALSE, [m |-> <<15308, 19710, 633, 181>>, e |-> 0 - 53])
  ELSE SNum(FALSE, FromInt(1))

\* Lines 207-213: <<srcX, srcY>> of the lattice point x2 / 2, y2 / 2.
HalftoneSrc(x2, y2, w, h, angle) ==
  Only({ << SFloor(SAdd(SAdd(SMul(dx, c), SMul(dy, sn)), SFromHalves(w))),
            SFloor(SAdd(SSub(SMul(dy, c), SMul(dx, sn)), SFromHalves(h))) >>
         : dx \in {SFromHalves(x2 - w)}, dy \in {SFromHalves(y2 - h)},
           c \in {HalftoneCos(angle)}, sn \in {HalftoneSin(angle)} })

\* Line 215
HalftoneInBounds(src, w, h) ==
  src[1] >= 0 /\ src[1] < w /\ src[2] >= 0 /\ src[2] < h

\* Line 221 (and renderAscii, line 142):
\* (r * 0.299 + g * 0.587 + b * 0.114) / 255
Luma(r, g, b) ==
  FDiv(FAdd(FAdd(FMul(FromInt(r), FDiv(FromInt(299), FromInt(1000))),
                 FMul(FromInt(g), FDiv(FromInt(587), FromInt(1000)))),
            FMul(FromInt(b), FDiv(FromInt(114), FromInt(1000)))),
       FromInt(255))

\* Lines 222-223 (and 143-144): (brightness - 0.5) * contrast + 0.5 clamped
\* to 0..1; the contrast is contrast10 / 10, a value of the slider.
Contrasted(brightness, contrast10) ==
  Only({ IF t.neg THEN FZero
         ELSE IF FLt(FromInt(1), t.v) THEN FromInt(1)
         ELSE t.v
         : t \in {SAdd(SMul(SSub(SNum(FALSE, brightness), SNum(FALSE, Half)),
                            SNum(FALSE, FDiv(FromInt(contrast10), FromInt(10)))),
                       SNum(FALSE, Half))} })

\* Lines 225-227: size = (1 - brightness) * radius and size > 0.5
DotDrawn(brightness, radius) ==
  /\ radius > 0
  /\ FLt(Half, FMul(FSub(FromInt(1), brightness), FromInt(radius)))

\* Lines 216-227 for the pixel srcX, srcY of imgData.
HalftoneDot(imgData, w, src, p) ==
  Only({ DotDrawn(Contrasted(Luma(imgData[i], imgData[i + 1], imgData[i + 2]),
                             p.contrast10), p.radius)
         : i \in {(src[2] * w + src[1]) * 4} })

\* Line 195 in half pixels: 2 * step = radius * 3
HalftoneStep2(p) == p.radius * 3

\* Lattice coordinates further out than this many pixels are not told
\* apart: for all of them the loop tests and the bounds test of line 215
\* give the same answers.
LatticeReach == 100

\* y += step, x += step (lines 204-205)
LatticeAdvance(c2, step2) ==
  Max(0 - 2 * LatticeReach, Min(2 * LatticeReach, c2 + step2))

----------------------------------------------------------------------------
(* SpecHalftone: one call of renderHalftone, its two loops taken one       *)
(* lattice point at a time.  data is the canvas as the call finds it       *)
(* (imgData); dots collects the centres, in half pixels of the rotated     *)
(* frame, of the shapes filled.                                            *)

\* A raster of w x h opaque pixels, black but for a white top-left pixel.
DarkRaster(w, h) ==
  [i \in 0..(4 * w * h - 1) |-> IF i < 3 \/ i % 4 = 3 THEN 255 ELSE 0]

HalftoneDims == {<<4, 4>>, <<6, 3>>, <<32, 32>>, <<3, 19>>, <<0, 3>>}

HalftoneRec(radius, angle) ==
  [radius |-> radius, angle |-> angle, contrast10 |-> 12]

\* DEFAULT_HALFTONE has radius 6, angle 45, contrast 1.2; the slider gives
\* radius 2..30, the function takes any number.
HalftoneParamSet ==
  { HalftoneRec(6, 45), HalftoneRec(10, 0), HalftoneRec(10, 90),
    HalftoneRec(2, 0), HalftoneRec(2, 90), HalftoneRec(3, 45),
    HalftoneRec(0, 0), HalftoneRec(0 - 2, 0) }

HalftoneInit ==
  /\ \E wh \in HalftoneDims :
       /\ width = wh[1]
       /\ height = wh[2]
       /\ data = DarkRaster(wh[1], wh[2])
  /\ before = data
  /\ orig = data
  /\ blocks = <<>>
  /\ params \in HalftoneParamSet
  /\ canvas = [width |-> width, height |-> height, ops |-> <<"base">>]
  /\ saved = canvas
  /\ calls = <<>>
  /\ app = [appMode |-> "IMAGE"]
  /\ refs = [originalImgRef |-> NullRef]
  /\ AuxIdle
  /\ phase = "init"

\* Lines 178-202: the helper canvas takes a copy of the canvas (drawImage
\* of a canvas without pixels throws), the background is filled, the frame
\* is rotated and y starts at -extra.
HalftoneBegin ==
  /\ phase = "init"
  /\ IF Degenerate(width, height)
       THEN phase' = "threw" /\ UNCHANGED <<canvas, loop, dots>>
       ELSE /\ canvas' = Painted(canvas, "halftone")
            /\ loop' = [x2 |-> 0 - 2 * Max(width, height),
                        y2 |-> 0 - 2 * Max(width, height), turn |-> 0]
            /\ dots' = {}
            /\ phase' = "outer"
  /\ UNCHANGED <<width, height, bufVars, app, refs, calls, saved, blendData, localStorage, clock,
                 grid, raf>>

\* Line 204: the test of the outer loop; x starts at -extra, or the loop
\* is left and line 250 restores the frame.
HalftoneOuter ==
  /\ phase = "outer"
  /\ IF loop.y2 < 2 * (height + Max(width, height))
       THEN /\ loop' = [loop EXCEPT !.x2 = 0 - 2 * Max(width, height)]
            /\ phase' = "inner"
       ELSE /\ phase' = "done"
            /\ UNCHANGED loop
  /\ UNCHANGED <<width, height, bufVars, app, refs, canvas, calls, saved,
                 blendData, localStorage, clock, grid, dots, raf>>

\* Lines 205-248: the test of the inner loop, its body, which leaves dots
\* as newDots, and x += step; or the inner loop is left and y += step.
\* loop.turn tells one pass through the body from the next.
InnerStep(newDots) ==
  /\ phase = "inner"
  /\ IF loop.x2 < 2 * (width + Max(width, height))
       THEN /\ dots' = newDots
            /\ loop' = [loop EXCEPT !.x2 = LatticeAdvance(@, HalftoneStep2(params)),
                                    !.turn = 1 - @]
            /\ phase' = "inner"
       ELSE /\ loop' = [loop EXCEPT !.y2 = LatticeAdvance(@, HalftoneStep2(params))]
            /\ phase' = "outer"
            /\ UNCHANGED dots
  /\ UNCHANGED <<width, height, bufVars, app, refs, canvas, calls, saved,
                 blendData, localStorage, clock, grid, raf>>

\* Lines 207-247: the dots after the body has run for the lattice point
\* the loops are at.
DotsAfterBody ==
  Only({ IF HalftoneInBounds(src, width, height)
            /\ HalftoneDot(data, width, src, params)
           THEN dots \cup {<<loop.x2, loop.y2>>}
           ELSE dots
         : src \in {HalftoneSrc(loop.x2, loop.y2, width, height, params.angle)} })

HalftoneInner == InnerStep(DotsAfterBody)

HalftoneNext == HalftoneBegin \/ HalftoneOuter \/ HalftoneInner

SpecHalftone == HalftoneInit /\ [][HalftoneNext]_vars

(* FairLoops: the two loops of renderHalftone alone.  The body of the     *)
(* inner loop writes neither x, y nor step and has no break, so whether    *)
(* the loops end does not depend on it; it is left out here.  The call is  *)
(* never suspended: while it has a step to take, it takes it.              *)

LoopInner == InnerStep(dots)

LoopNext == HalftoneBegin \/ HalftoneOuter \/ LoopInner

FairLoops == HalftoneInit /\ [][LoopNext]_vars /\ WF_vars(LoopNext)

----------------------------------------------------------------------------
(* C15: every stage terminates for every numeric parameter value, also out *)
(* of range (halftone radius 0 or negative, ascii scale 0, negative        *)
(* rgbShift): here, a call of renderHalftone that has entered its loops    *)
(* leaves them and returns.                                                *)

C15_HalftoneReturns == (phase = "inner") ~> (phase = "done")

----------------------------------------------------------------------------
(* The render loop of App.tsx: the Loop Management effect (lines 381-403), *)
(* the Static Image Update Trigger (405-411) and handleAIGenerate          *)
(* (745-769), which cancels a frame.  raf.queue holds the callbacks        *)
(* requested with requestAnimationFrame and not yet run or cancelled,      *)
(* oldest first: "loop" is the self-rescheduling loop of line 389,         *)
(* "render" is renderCanvas itself (line 409).  raf.frame is the position  *)
(* in raf.queue of the request whose handle animationFrameIdRef holds, 0   *)
(* when that request is no longer pending.  raf.renders counts the         *)
(* renderCanvas invocations of the last step.  A change of state, the      *)
(* cleanups and the effects it triggers are one step.  app.renderThrows    *)
(* tells whether renderCanvas throws for the elements and layers at hand   *)
(* (a source whose capped size has an edge of 0, under a layer that reads  *)
(* the canvas); app.aiFrom is the appMode handleAIGenerate was started in  *)
(* while its request is in flight, "none" otherwise.                       *)

\* Lines 383-387 and 407: shouldLoop, isLooping.
ShouldLoop(a) ==
  \/ a.appMode = "CAMERA"
  \/ (a.appMode = "IMAGE" /\ a.sourceType = "video")
  \/ (a.blendLayer /\ a.blendType = "video")
  \/ a.vibration > 0

\* The sequence q without its k-th element.
Without(q, k) == [i \in 1..(Len(q) - 1) |-> IF i < k THEN q[i] ELSE q[i + 1]]

\* cancelAnimationFrame(animationFrameIdRef.current), lines 232, 401, 753:
\* a handle whose request has run or was cancelled cancels nothing.
CancelFrame(r) ==
  IF r.frame = 0 THEN r
  ELSE [r EXCEPT !.queue = Without(@, r.frame), !.frame = 0]

\* Lines 389-394, loop() with shouldLoop true: renderCanvas is invoked and,
\* unless it throws, the next frame is requested and its handle kept.
RunLoop(r, throws) ==
  IF throws THEN [r EXCEPT !.renders = @ + 1]
  ELSE [queue |-> Append(r.queue, "loop"), frame |-> Len(r.queue) + 1,
        renders |-> r.renders + 1]

\* Lines 396-398: the body of the Loop Management effect.
LoopEffect(a, r) == IF ShouldLoop(a) THEN RunLoop(r, a.renderThrows) ELSE r

\* Lines 406-410: the Static Image Update Trigger.
StaticTrigger(a, r) ==
  IF a.appMode = "IMAGE" /\ ~ShouldLoop(a)
    THEN [r EXCEPT !.queue = Append(@, "render")]
    ELSE r

\* The frames that may be pending at once in the model.
MaxPending == 3

\* The state the two effects depend on, over small sets.  version stands
\* for every parameter renderCanvas is rebuilt for (line 379).
LoopApps ==
  [appMode : {"LANDING", "CAMERA", "IMAGE"}, sourceType : {"image", "video"},
   blendLayer : BOOLEAN, blendType : {"null", "video"},
   vibration : {0, 5}, activeTab : {"MANUAL", "AI"}, version : {0, 1},
   renderThrows : BOOLEAN, aiFrom : {"none"}]

\* Lines 80-109: the state App is mounted with; neither effect requests a
\* frame.
LoopInit ==
  /\ app = [appMode |-> "LANDING", sourceType |-> "image",
            blendLayer |-> FALSE, blendType |-> "null", vibration |-> 0,
            activeTab |-> "MANUAL", version |-> 0,
            renderThrows |-> FALSE, aiFrom |-> "none"]
  /\ raf = NoRaf
  /\ localStorage = NoStorage
  /\ clock = 0
  /\ phase = "mounted"
  /\ data = NoData
  /\ before = NoData
  /\ orig = NoData
  /\ blocks = <<>>
  /\ width = 0
  /\ height = 0
  /\ params = [none |-> 0]
  /\ refs = [originalImgRef |-> NullRef]
  /\ canvas = [width |-> 0, height |-> 0, ops |-> <<>>]
  /\ saved = canvas
  /\ calls = <<>>
  /\ blendData = NoData
  /\ grid = NoGrid
  /\ loop = NoLoop
  /\ dots = {}

\* Whether a dependency of the Loop Management effect (line 403) differs.
LoopDepsDiffer(a, b) ==
  \/ a.appMode # b.appMode \/ a.sourceType # b.sourceType
  \/ a.activeTab # b.activeTab \/ a.blendLayer # b.blendLayer
  \/ a.blendType # b.blendType \/ a.version # b.version
  \/ a.vibration # b.vibration

\* A handler sets state the Loop Management effect depends on: the cleanup
\* of line 401 cancels the kept frame, then the effect and the static
\* trigger (whose dependencies, line 411, include those of line 403) run
\* with the new state.  loop() throwing out of the effect unmounts App.
ChangeState ==
  /\ phase = "mounted"
  /\ Len(raf.queue) < MaxPending
  /\ \E a \in LoopApps :
       /\ LoopDepsDiffer(app, a)
       /\ app' = [a EXCEPT !.aiFrom = app.aiFrom]
       /\ raf' = StaticTrigger(a, LoopEffect(a,
                    CancelFrame([raf EXCEPT !.renders = 0])))
       /\ phase' = IF ShouldLoop(a) /\ a.renderThrows
                     THEN "unmounted" ELSE "mounted"
  /\ UNCHANGED <<width, height, bufVars, refs, canvas, calls, saved,
                 blendData, localStorage, clock, grid, loop, dots>>

\* setImageSrc alone, for another source (line 411 lists imageSrc, line
\* 403 does not): only the static trigger runs.
ChangeImageSrc ==
  /\ phase = "mounted"
  /\ Len(raf.queue) < MaxPending
  /\ \E t \in BOOLEAN :
       /\ app' = [app EXCEPT !.renderThrows = t]
       /\ raf' = StaticTrigger(app', [raf EXCEPT !.renders = 0])
  /\ UNCHANGED <<width, height, bufVars, phase, refs, canvas, calls, saved,
                 blendData, localStorage, clock, grid, loop, dots>>

\* Lines 745-757: handleAIGenerate up to its await.  The canvas is mounted
\* in CAMERA and IMAGE mode; no state either effect depends on is set.
AIGenerateStart ==
  /\ phase = "mounted"
  /\ app.activeTab = "AI"
  /\ app.appMode \in {"CAMERA", "IMAGE"}
  /\ app.aiFrom = "none"
  /\ app' = [app EXCEPT !.aiFrom = app.appMode]
  /\ raf' = CancelFrame([raf EXCEPT !.renders = 0])
  /\ UNCHANGED <<width, height, bufVars, phase, refs, canvas, calls, saved,
                 blendData, localStorage, clock, grid, loop, dots>>

\* Lines 758-768: the request is answered; on failure in camera mode
\* renderCanvas is invoked once.
AIGenerateEnd ==
  /\ phase = "mounted"
  /\ app.aiFrom # "none"
  /\ \E ok \in BOOLEAN :
       raf' = [raf EXCEPT !.renders =
                 IF ~ok /\ app.aiFrom = "CAMERA" THEN 1 ELSE 0]
  /\ app' = [app EXCEPT !.aiFrom = "none"]
  /\ UNCHANGED <<width, height, bufVars, phase, refs, canvas, calls, saved,
                 blendData, localStorage, clock, grid, loop, dots>>

\* The frames k.. of q as the animation frame runs them: every callback
\* invokes renderCanvas, and a loop that does not throw requests its next
\* frame.
RECURSIVE RunFrames(_, _, _, _)
RunFrames(q, k, throws, r) ==
  IF k > Len(q) THEN r
  ELSE RunFrames(q, k + 1, throws,
         IF q[k] = "loop" THEN RunLoop(r, throws)
         ELSE [r EXCEPT !.renders = @ + 1])

\* An animation frame: the callbacks requested before it run, oldest
\* first; what they request waits for the next frame.
Tick ==
  /\ raf.queue # <<>>
  /\ raf' = RunFrames(raf.queue, 1, app.renderThrows, NoRaf)
  /\ UNCHANGED <<width, height, bufVars, phase, app, refs, canvas, calls,
                 saved, blendData, localStorage, clock, grid, loop, dots>>

LoopMgmtNext ==
  ChangeState \/ ChangeImageSrc \/ AIGenerateStart \/ AIGenerateEnd \/ Tick

SpecLoop == LoopInit /\ [][LoopMgmtNext]_vars

\* The self-rescheduling loops that are pending.
LoopsPending == Cardinality({i \in 1..Len(raf.queue) : raf.queue[i] = "loop"})

----------------------------------------------------------------------------
(* C16: the render loop re-invokes the pipeline on every animation tick    *)
(* exactly while the source is live or streaming or vibration > 0, for a   *)
(* static source with vibration 0 no loop is running, and at most one      *)
(* self-rescheduling loop is pending at any time: while App is mounted, a  *)
(* loop is pending if and only if shouldLoop holds, and never more than    *)
(* one.                                                                    *)

C16_LoopWhileLive ==
  /\ LoopsPending <= 1
  /\ phase = "mounted" => (ShouldLoop(app) <=> LoopsPending = 1)

----------------------------------------------------------------------------
(* C17: halftone dot centres lie on a square lattice of pitch radius x 1.5 *)
(* in the rotated frame, starting at (-extra, -extra); a dot is drawn only *)
(* for lattice points whose inverse-rotated source coordinate lies in      *)
(* [0, W) x [0, H); at angle 0 that coordinate is the lattice point, at    *)
(* angle 90 it is the lattice point with its axes swapped about the        *)
(* centre.  Coordinates are in half pixels.                                *)

\* The lattice point <<x2, y2>> rotated back by the angle about the centre
\* of the canvas, in exact arithmetic: cos 90 is 0 and sin 90 is 1.
ExactSrc2(x2, y2, w, h, angle) ==
  IF angle = 0 THEN <<x2, y2>>
  ELSE <<w + (y2 - h), h - (x2 - w)>>

OnLattice(c2, origin2, step2) == step2 > 0 /\ (c2 - origin2) % step2 = 0

C17_DotLattice ==
  \A d \in dots :
    /\ OnLattice(d[1], 0 - 2 * Max(width, height), HalftoneStep2(params))
    /\ OnLattice(d[2], 0 - 2 * Max(width, height), HalftoneStep2(params))
    /\ params.angle \in {0, 90} =>
         \E e \in {ExactSrc2(d[1], d[2], width, height, params.angle)} :
           e[1] >= 0 /\ e[1] < 2 * width /\ e[2] >= 0 /\ e[2] < 2 * height

----------------------------------------------------------------------------
(* SpecHex: applyChromaKey once on a frame of one pixel, with key colour   *)
(* strings that are and are not six hex digits after an optional '#', at   *)
(* similarity 0.01 (only the key colour itself is within the threshold)    *)
(* and without smoothing.                                                  *)

\* A key colour string, whether it is a valid colour in the sense of the
\* claim, and the bytes it stands for.
HexCase(hex, valid, r, g, b) ==
  [hex |-> hex, valid |-> valid, r |-> r, g |-> g, b |-> b]

HexCases ==
  {
    HexCase(<<"#", "f", "f", "0", "0", "8", "0">>, TRUE, 255, 0, 128),
    HexCase(<<"F", "F", "0", "0", "8", "0">>, TRUE, 255, 0, 128),
    HexCase(<<"#", "F", "f", "0", "0", "8", "0">>, TRUE, 255, 0, 128),
    HexCase(<<"#", "0", "0", "f", "f", "0", "0">>, TRUE, 0, 255, 0),
    HexCase(<<"0", "A", "1", "4", "1", "E">>, TRUE, 10, 20, 30),
    HexCase(<<"#", "0", "a", "1", "4", "1", "e">>, TRUE, 10, 20, 30),
    HexCase(<<"#", "f", "a", "0", "0", "8", "2">>, TRUE, 250, 0, 130),
    HexCase(<<"#", "A", "B", "C", "D", "E", "F">>, TRUE, 171, 205, 239),
    HexCase(<<"a", "b", "c", "d", "e", "f">>, TRUE, 171, 205, 239),
    HexCase(<<"#", "0", "1", "2", "3", "4", "5">>, TRUE, 1, 35, 69),
    HexCase(<<"6", "7", "8", "9", "a", "B">>, TRUE, 103, 137, 171),
    HexCase(<<"g", "r", "e", "e", "n">>, FALSE, 0, 0, 0),
    HexCase(<<>>, FALSE, 0, 0, 0),
    HexCase(<<"#">>, FALSE, 0, 0, 0),
    HexCase(<<"#", "0", "f", "0">>, FALSE, 0, 0, 0),
    HexCase(<<"#", "f", "f", "0", "0", "8", "0", "0">>, FALSE, 0, 0, 0),
    HexCase(<<"#", "#", "f", "f", "0", "0", "8", "0">>, FALSE, 0, 0, 0),
    HexCase(<<"#", "f", "f", "0", "0", "8", "g">>, FALSE, 0, 0, 0),
    HexCase(<<"f", "f", "0", "0", "8", "0", "#">>, FALSE, 0, 0, 0),
    HexCase(<<" ", "f", "f", "0", "0", "8", "0">>, FALSE, 0, 0, 0),
    HexCase(<<"#", "F", "F", "0", "0", "7">>, FALSE, 0, 0, 0),
    HexCase(<<"0", "x", "0", "a", "1", "4", "1", "e">>, FALSE, 0, 0, 0)
  }

HexInit ==
  /\ \E px \in 1..Len(ChromaPalette) : data = FromPixels(<<ChromaPalette[px]>>)
  /\ before = data
  /\ orig = data
  /\ blocks = <<>>
  /\ PipeIdle
  /\ AuxIdle
  /\ width = 1
  /\ height = 1
  /\ \E c \in HexCases :
       params = [enabled |-> TRUE, keyColor |-> c.hex, similarity |-> 1,
                 smoothness |-> 0, spill |-> 0]
  /\ phase = "init"

SpecHex == HexInit /\ [][ChromaNext]_vars

\* The frame d with the alpha of every pixel of colour t set to 0.
Keyed(d, t) ==
  [i \in DOMAIN d |->
     IF i % 4 = 3 /\ d[i - 3] = t.r /\ d[i - 2] = t.g /\ d[i - 1] = t.b
       THEN 0 ELSE d[i]]

----------------------------------------------------------------------------
(* C18: a key colour string that is not six hex digits after an optional   *)
(* '#' makes applyChromaKey use the key colour (0, 255, 0) and process the *)
(* frame as usual; a valid string is parsed to its exact R, G, B bytes in  *)
(* either letter case.                                                     *)

C18_KeyColorParsed ==
  phase = "once" =>
    \A c \in HexCases :
      c.hex = params.keyColor =>
        \E t \in {IF c.valid THEN [r |-> c.r, g |-> c.g, b |-> c.b]
                  ELSE [r |-> 0, g |-> 255, b |-> 0]} :
          /\ hexToRgb(params.keyColor) = t
          /\ data = Keyed(before, t)

\* An invalid key colour, and the pixel (0, 255, 0) made transparent.
C18_Witness ==
  /\ phase = "once"
  /\ \E c \in HexCases : c.hex = params.keyColor /\ ~c.valid
  /\ before[0] = 0 /\ before[1] = 255 /\ before[2] = 0
  /\ before[3] # 0
  /\ data[3] = 0

----------------------------------------------------------------------------
(* SpecSort: applyPixelSort (glitchAlgorithms.ts 118-164), one step per    *)
(* iteration of its loop over r.  blocks.count is r, blocks.rows the rows  *)
(* drawn so far.                                                           *)

\* Rows with pixels of equal brightness apart and next to each other, in
\* falling and in rising order.
SortPixels ==
  << <<30, 0, 0, 1>>, <<5, 0, 0, 4>>, <<0, 30, 0, 2>>, <<10, 10, 10, 3>>,
     <<0, 0, 5, 5>>, <<1, 1, 1, 6>>, <<0, 0, 30, 7>>, <<2, 2, 1, 8>> >>

SortBuffer(n) == FromPixels([p \in 1..n |-> SortPixels[((p - 1) % 8) + 1]])

SortDims == {<<2, 2>>, <<3, 2>>, <<2, 4>>, <<4, 2>>, <<3, 1>>, <<1, 100>>}

\* The slider gives 0..50.
SortThresholds == {0, 1, 29, 50}

SortInit ==
  /\ \E wh \in SortDims :
       /\ width = wh[1]
       /\ height = wh[2]
       /\ data = SortBuffer(wh[1] * wh[2])
  /\ before = data
  /\ orig = data
  /\ blocks = [rows |-> {}, count |-> 0]
  /\ PipeIdle
  /\ AuxIdle
  /\ params \in {GlitchRec(0, 0, 0, t) : t \in SortThresholds}
  /\ phase = "init"

\* Line 119, then the loop of lines 123-163: while r < rowsToSort a row is
\* drawn and sorted in place.
SortStep ==
  /\ phase \in {"init", "sorting"}
  /\ IF params.pixelSort # 0
        /\ blocks.count < RowsToSort(height, params.pixelSort)
       THEN \E draw \in Draws :
              \E y \in {randomInt(0, height - 1, draw)} :
                /\ data' = SortRow(data, width, y)
                /\ blocks' = [rows |-> blocks.rows \cup {y},
                              count |-> blocks.count + 1]
                /\ phase' = "sorting"
       ELSE /\ phase' = "done"
            /\ UNCHANGED <<data, blocks>>
  /\ UNCHANGED <<width, height, before, params, orig, pipeVars, auxVars>>

SortNext == SortStep

SpecSort == SortInit /\ [][SortNext]_vars

\* The ways to arrange the columns 0..w-1.
ColumnOrders(w) ==
  {f \in [0..(w - 1) -> 0..(w - 1)] :
     \A i, j \in 0..(w - 1) : i # j => f[i] # f[j]}

\* Whether row y of d is row y of b with its pixels arranged by f.
RowArranged(d, b, w, y, f) ==
  \A i \in 0..(w - 1) : \A c \in 0..3 :
    d[4 * (y * w + i) + c] = b[4 * (y * w + f[i]) + c]

----------------------------------------------------------------------------
(* C19: with pixelSort > 0 the pass draws floor(H x pixelSort / 100) rows, *)
(* each in [0, H); afterwards every drawn row holds the pixels it held     *)
(* before, ordered by non-decreasing R + G + B with equal brightness in    *)
(* the original order, and every other row is unchanged.                   *)

C19_RowsSorted ==
  (phase = "done" /\ params.pixelSort > 0) =>
    /\ blocks.count = (height * params.pixelSort) \div 100
    /\ \A y \in blocks.rows : y >= 0 /\ y < height
    /\ \A y \in 0..(height - 1) :
         IF y \in blocks.rows
           THEN \E f \in ColumnOrders(width) :
                  /\ RowArranged(data, before, width, y, f)
                  /\ \A i, j \in 0..(width - 1) :
                       i < j =>
                         \/ Brightness3(before, 4 * y * width, f[i])
                              < Brightness3(before, 4 * y * width, f[j])
                         \/ /\ Brightness3(before, 4 * y * width, f[i])
                                 = Brightness3(before, 4 * y * width, f[j])
                            /\ f[i] < f[j]
           ELSE RowBytes(y, width) \subseteq {i \in DOMAIN data : data[i] = before[i]}

----------------------------------------------------------------------------
(* SpecScan: applyScanlines (glitchAlgorithms.ts 89-116) alone, with odd   *)
(* and even intensities of the slider, on buffers high enough to hold a    *)
(* second darkened row.                                                    *)

\* Bytes whose products with the factors fall on and next to halves, and
\* bytes that 25 of noise takes below 0.
ScanPixelValues ==
  << <<15, 5, 255, 200>>, <<0, 30, 101, 0>>, <<3, 250, 77, 255>>,
     <<128, 45, 10, 9>>, <<36, 27, 90, 130>> >>

ScanBuffer(n) == FromPixels([p \in 1..n |-> ScanPixelValues[((p - 1) % 5) + 1]])

ScanDims == {<<1, 7>>, <<1, 9>>, <<2, 3>>}

ScanInit ==
  /\ \E wh \in ScanDims :
       /\ width = wh[1]
       /\ height = wh[2]
       /\ data = ScanBuffer(wh[1] * wh[2])
  /\ before = data
  /\ orig = data
  /\ blocks = <<>>
  /\ PipeIdle
  /\ AuxIdle
  /\ params \in {GlitchRec(0, 0, s, 0) : s \in ScanIntensities \cup {0}}
  /\ phase = "init"

\* applyScanlines(data, width, height, params.scanlines) with every draw
\* Math.random() can return.
ScanApply ==
  /\ phase = "init"
  /\ \E drs \in [ScanPixels(width, height, params.scanlines)
                   -> ScanDraws(params.scanlines)] :
       data' = Eval(ScanPass(data, width, height, params, drs))
  /\ before' = data
  /\ phase' = "done"
  /\ UNCHANGED <<width, height, params, orig, blocks, pipeVars, auxVars>>

ScanNext == ScanApply

SpecScan == ScanInit /\ [][ScanNext]_vars

\* q4 / 4 rounded to the nearest integer, halves to the even one.
RoundQuarters(q4) ==
  IF q4 % 4 < 2 THEN q4 \div 4
  ELSE IF q4 % 4 > 2 THEN (q4 \div 4) + 1
  ELSE IF (q4 \div 4) % 2 = 0 THEN q4 \div 4
  ELSE (q4 \div 4) + 1

\* Whether byte dk is v times (20 - s) / 20 rounded to a nearest integer.
IsProduct(dk, v, s) ==
  dk \in Byte /\ 20 * dk - v * (20 - s) <= 10 /\ v * (20 - s) - 20 * dk <= 10

\* Whether the bytes out are the bytes v of one pixel multiplied by the
\* factor, with, when noisy, the noise n4 / 4 added, saturating.
IsDarkened(out, v, s, noisy, n4) ==
  \A c \in 1..3 :
    \E dk \in {(v[c] * (20 - s)) \div 20, ((v[c] * (20 - s)) \div 20) + 1} :
      /\ IsProduct(dk, v[c], s)
      /\ out[c] = IF noisy THEN Max(0, Min(255, RoundQuarters(4 * dk + n4)))
                  ELSE dk

----------------------------------------------------------------------------
(* C20: with scanlines in 1..10 the pass uses lineSkip = 2 + floor((10 -   *)
(* scanlines) / 2) and factor = 0.5 + (10 - scanlines) / 20; in the rows y *)
(* with y mod lineSkip = 0 every R, G, B is multiplied by the factor,      *)
(* for some pixels with one noise value of [-25, 25] added, saturating to  *)
(* 0..255; the other rows and every alpha byte are unchanged.              *)

C20_Scanlines ==
  (phase = "done" /\ params.scanlines \in 1..10) =>
    \A p \in 0..(width * height - 1) :
      /\ data[4 * p + 3] = before[4 * p + 3]
      /\ IF (p \div width) % (2 + ((10 - params.scanlines) \div 2)) = 0
           THEN \E noisy \in BOOLEAN, n4 \in (0 - 100)..100 :
                  IsDarkened(<<data[4 * p], data[4 * p + 1], data[4 * p + 2]>>,
                             <<before[4 * p], before[4 * p + 1], before[4 * p + 2]>>,
                             params.scanlines, noisy, n4)
           ELSE /\ data[4 * p] = before[4 * p]
                /\ data[4 * p + 1] = before[4 * p + 1]
                /\ data[4 * p + 2] = before[4 * p + 2]

\* At intensity 9 (lineSkip 2, factor 0.55) rows 0 and 2 are darkened, one
\* pixel with noise and one without, and row 1 is as before.
C20_Witness ==
  /\ phase = "done"
  /\ params.scanlines = 9
  /\ width = 1
  /\ before[0] = 15 /\ data[0] = 0
  /\ before[2] = 255 /\ data[2] = 115
  /\ before[8] = 3 /\ data[8] = 2
  /\ data[3] = 200
  /\ data[4] = before[4] /\ data[5] = before[5] /\ data[6] = before[6]

----------------------------------------------------------------------------
(* C21: in displacement mode every sampled coordinate is clamped into      *)
(* [0, W) x [0, H); after the pass the R, G, B of every pixel are its own  *)
(* from before the pass or those the pixel at the displaced, clamped       *)
(* coordinate had before the pass; with mix = 0 no pixel is replaced;      *)
(* alpha is never changed.                                                 *)

\* The coordinate c + shift kept within 0..n-1.
Clamped(c, shift, n) ==
  IF c + shift < 0 THEN 0 ELSE IF c + shift > n - 1 THEN n - 1 ELSE c + shift

C21_Displacement ==
  (phase = "done" /\ params.mode = "displacement") =>
    /\ params.mix = 0 => data = before
    /\ \A px \in 0..(width * height - 1) :
         \E sx \in {Clamped(px % width,
                            DisplaceShift(blendData[4 * px], 2 * params.scale),
                            width)},
            sy \in {Clamped(px \div width,
                            DisplaceShift(blendData[4 * px + 1], 2 * params.scale),
                            height)} :
           /\ sx \in 0..(width - 1) /\ sy \in 0..(height - 1)
           /\ DisplaceSrcIdx(blendData, width, height, params, px)
                = 4 * (sy * width + sx)
           /\ data[4 * px + 3] = before[4 * px + 3]
           /\ \/ \A c \in 0..2 : data[4 * px + c] = before[4 * px + c]
              \/ \A c \in 0..2 :
                   data[4 * px + c] = before[4 * (sy * width + sx) + c]

\* A row of three pixels: the first took the colour of the third, and the
\* second took the colour the first had before the pass.
C21_Witness ==
  /\ phase = "done"
  /\ params.mode = "displacement"
  /\ width = 3
  /\ \A c \in 0..2 : data[c] = before[8 + c] /\ data[c] # before[c]
  /\ \A c \in 0..2 : data[4 + c] = before[c] /\ data[4 + c] # before[4 + c]
  /\ data[4] # before[8]

----------------------------------------------------------------------------
(* C22: in difference mode each pixel is either left as it was or has each *)
(* of R, G, B set to |A - B| of that channel; a draw replaces the pixel    *)
(* when it is below mix / 100, so with mix = 0 no pixel changes and with   *)
(* mix = 100 every pixel is replaced; alpha is never changed.              *)

\* Whether pixel px holds |A - B| in its three channels.
IsDifference(px) ==
  \A c \in 0..2 :
    data[4 * px + c] =
      IF before[4 * px + c] >= blendData[4 * px + c]
        THEN before[4 * px + c] - blendData[4 * px + c]
        ELSE blendData[4 * px + c] - before[4 * px + c]

\* C22: each pixel is as it was or holds |A - B| in R, G and B; a draw
\* below mix / 100 replaces; mix 0 changes nothing, mix 100 replaces every
\* pixel; alpha is as it was.
C22_Difference ==
  (phase = "done" /\ params.mode = "difference") =>
    /\ DifferenceHits(params) = {k \in Draws : 100 * k < params.mix * RandDen}
    /\ params.mix = 0 => data = before
    /\ \A px \in 0..(width * height - 1) :
         /\ data[4 * px + 3] = before[4 * px + 3]
         /\ params.mix = 100 => IsDifference(px)
         /\ \/ \A c \in 0..2 : data[4 * px + c] = before[4 * px + c]
            \/ IsDifference(px)

\* At mix 50 one pixel was replaced, by bytes that differ from its own and
\* where B is the larger in some channel, and another was left as it was.
C22_Witness ==
  /\ phase = "done"
  /\ params.mode = "difference"
  /\ params.mix = 50
  /\ \E px, qx \in 0..(width * height - 1) :
       /\ IsDifference(px)
       /\ \E c \in 0..2 : before[4 * px + c] < blendData[4 * px + c]
       /\ \A c \in 0..2 : data[4 * px + c] # before[4 * px + c]
       /\ \A c \in 0..2 : data[4 * qx + c] = before[4 * qx + c]
       /\ ~IsDifference(qx)

----------------------------------------------------------------------------
(* C23: in hard-mix mode each of R, G, B becomes, with                      *)
(* avg = floor((A + B) / 2), min(255, avg + mix x 2.55) when avg is above  *)
(* the threshold and max(0, avg - mix x 2.55) otherwise, stored as the     *)
(* nearest byte; every result lies in 0..255, alpha is unchanged, and with *)
(* mix = 100 every channel is exactly 0 or 255.                            *)

\* A hundred times the value the formula gives for target byte t and blend
\* byte b, in exact arithmetic.
HardMixHundredths(t, b) ==
  LET avg == (t + b) \div 2
  IN IF avg > params.threshold
       THEN Min(25500, 100 * avg + 255 * params.mix)
       ELSE Max(0, 100 * avg - 255 * params.mix)

\* C23: every stored channel is the nearest byte to the formula's value,
\* alpha is as it was, and mix 100 gives 0 or 255 only.
C23_HardMix ==
  (phase = "done" /\ params.mode = "hard-mix") =>
    \A i \in DOMAIN data :
      IF i % 4 = 3 THEN data[i] = before[i]
      ELSE /\ data[i] \in 0..255
           /\ Abs(100 * data[i] - HardMixHundredths(before[i], blendData[i])) <= 50
           /\ params.mix = 100 => data[i] \in {0, 255}

\* One pass in which the sum A + B of some channel was odd, a channel above
\* the threshold was raised and one below was lowered, neither to a limit.
C23_Witness ==
  /\ phase = "done"
  /\ params.mode = "hard-mix"
  /\ \E i, j, k \in DOMAIN data :
       /\ i % 4 # 3 /\ j % 4 # 3 /\ k % 4 # 3
       /\ (before[k] + blendData[k]) % 2 = 1
       /\ data[k] \notin {0, 255}
       /\ (before[i] + blendData[i]) \div 2 > params.threshold
       /\ data[i] > (before[i] + blendData[i]) \div 2
       /\ data[i] < 255
       /\ (before[j] + blendData[j]) \div 2 <= params.threshold
       /\ data[j] < (before[j] + blendData[j]) \div 2
       /\ data[j] > 0

----------------------------------------------------------------------------
(* renderAscii's glyph loop, chromaKeyAlgorithms.ts 131-164, and SpecGlyph, *)
(* which runs it once over a row of two sampled cells.  data is the raster *)
(* getImageData returned at line 110; calls collects the fillText calls,   *)
(* each with the brightness and the index it was made from.                *)

\* Lines 77-81: the ramps as sequences of character codes.
CHAR_SETS ==
  [simple |-> <<32, 46, 58, 45, 61, 43, 42, 35, 37, 64>>,
   complex |-> <<32, 46, 39, 96, 94, 34, 44, 58, 59, 73, 108, 33, 105, 126,
                 43, 95, 45, 63, 93, 91, 125, 123, 49, 41, 40, 124, 92, 47,
                 116, 102, 106, 114, 120, 110, 117, 118, 99, 122, 88, 89, 85,
                 74, 67, 76, 81, 48, 79, 90, 109, 119, 113, 112, 100, 98, 107,
                 104, 97, 111, 42, 35, 77, 87, 38, 56, 37, 66, 64, 36>>,
   blocks |-> <<32, 9617, 9618, 9619, 9608>>]

\* Line 132: CHAR_SETS[params.chars] || CHAR_SETS.simple
AsciiChars(key) ==
  IF key \in DOMAIN CHAR_SETS THEN CHAR_SETS[key] ELSE CHAR_SETS.simple

\* Line 153 with the ramp's length in place of its last index.
GlyphIndexFullLen(brightness, charLen) ==
  FFloor(FMul(FSub(FromInt(1), brightness), FromInt(charLen)))

\* Line 153: Math.floor((1 - brightness) * (charLen - 1))
GlyphIndex(brightness, charLen) ==
  FFloor(FMul(FSub(FromInt(1), brightness), FromInt(charLen - 1)))

\* Lines 137-162 for the cell at byte i: the glyph drawn (0 - 1 for the
\* undefined that an index outside the ramp gives).
GlyphCall(cells, i, chars, p) ==
  Only({ Only({ [op |-> "fillText", brightness |-> b, charIndex |-> k,
                 char |-> IF k + 1 \in DOMAIN chars THEN chars[k + 1] ELSE 0 - 1]
                : k \in {GlyphIndex(b, Len(chars))} })
         : b \in {Contrasted(Luma(cells[i], cells[i + 1], cells[i + 2]),
                             p.contrast10)} })

\* Lines 131-164
AsciiGlyphs(cells, cols, rows, p) ==
  Only({ [n \in 1..(cols * rows) |-> GlyphCall(cells, 4 * (n - 1), chars, p)]
         : chars \in {AsciiChars(p.chars)} })

GlyphColors ==
  { <<255, 255, 255, 255>>, <<0, 0, 0, 255>>, <<128, 128, 128, 255>>,
    <<255, 0, 0, 255>>, <<0, 255, 0, 200>>, <<0, 0, 255, 255>>,
    <<200, 180, 90, 255>>, <<254, 255, 255, 255>>, <<1, 0, 0, 255>>,
    <<40, 60, 20, 0>> }

\* The slider gives contrast 0.5..3 in steps of 0.1.
GlyphContrasts == {5, 10, 12, 30}

GlyphKeys == {"simple", "complex", "blocks", "dots"}

GlyphInit ==
  /\ width = 2
  /\ height = 1
  /\ \E c1, c2 \in GlyphColors : data = FromPixels(<<c1, c2>>)
  /\ params \in [contrast10 : GlyphContrasts, chars : GlyphKeys]
  /\ before = data
  /\ orig = data
  /\ blocks = <<>>
  /\ canvas = [width |-> width, height |-> height, ops |-> <<"base">>]
  /\ saved = canvas
  /\ calls = <<>>
  /\ app = [appMode |-> "IMAGE"]
  /\ refs = [originalImgRef |-> NullRef]
  /\ blendData = NoData
  /\ grid = [finite |-> TRUE, cols |-> 2, rows |-> 1]
  /\ loop = NoLoop
  /\ dots = {}
  /\ raf = NoRaf
  /\ localStorage = NoStorage
  /\ clock = 0
  /\ phase = "init"

GlyphApply ==
  /\ phase = "init"
  /\ calls' = AsciiGlyphs(data, grid.cols, grid.rows, params)
  /\ canvas' = Painted(canvas, "ascii")
  /\ phase' = "done"
  /\ UNCHANGED <<width, height, bufVars, app, refs, saved, auxVars>>

GlyphNext == GlyphApply

SpecGlyph == GlyphInit /\ [][GlyphNext]_vars

----------------------------------------------------------------------------
(* C24: for every sampled cell colour and contrast the glyph index lies in *)
(* 0..rampLength-1; brightness 1 (after the contrast curve and clamping)   *)
(* gives index 0, the blank, brightness 0 gives rampLength-1, the densest; *)
(* of two cells the one of lower luminance never has the lower index; an   *)
(* unknown ramp key selects the 'simple' ramp.                             *)

\* A thousand times the luminance 0.299 r + 0.587 g + 0.114 b of cell n.
CellLuminance(n) ==
  299 * data[4 * (n - 1)] + 587 * data[4 * (n - 1) + 1]
    + 114 * data[4 * (n - 1) + 2]

\* The ramp the claim names for the key.
ClaimedRamp ==
  IF params.chars = "complex" THEN CHAR_SETS.complex
  ELSE IF params.chars = "blocks" THEN CHAR_SETS.blocks
  ELSE CHAR_SETS.simple

----------------------------------------------------------------------------
(* C25: with d2 the squared RGB distance of a pixel to the key colour,     *)
(* T = similarity x 442 and S = smoothness x 100: a pixel with d2 < T^2    *)
(* gets alpha 0 and keeps R, G, B; a pixel with d2 >= T^2 + S^2 keeps all  *)
(* four bytes; R, G, B change only inside the band between the two and     *)
(* only when spill > 0; when disabled the whole buffer is unchanged.       *)

\* Ten thousand times T^2 and S^2, similarity and smoothness being given in
\* hundredths.
TSqScaled == (442 * params.similarity) * (442 * params.similarity)

SSqScaled == 10000 * params.smoothness * params.smoothness

RgbKept(px) == \A c \in 0..2 : data[px + c] = before[px + c]

\* C25 as stated, T^2 and T^2 + S^2 being the exact products.
C25_Partition ==
  phase = "once" =>
    IF ~params.enabled THEN data = before
    ELSE \A px \in {i \in DOMAIN before : i % 4 = 0} :
           \E d2 \in {DistSq(before, px, hexToRgb(params.keyColor))} :
             /\ 10000 * d2 < TSqScaled => (data[px + 3] = 0 /\ RgbKept(px))
             /\ 10000 * d2 >= TSqScaled + SSqScaled =>
                  (RgbKept(px) /\ data[px + 3] = before[px + 3])
             /\ ~RgbKept(px) =>
                  /\ params.spill > 0
                  /\ 10000 * d2 >= TSqScaled
                  /\ 10000 * d2 < TSqScaled + SSqScaled

\* The same partition with T^2 and T^2 + S^2 as the doubles the function
\* computes them to.
C25_PartitionComputed ==
  phase = "once" =>
    IF ~params.enabled THEN data = before
    ELSE \A px \in {i \in DOMAIN before : i % 4 = 0} :
           \E k \in {ChromaConsts(params)} :
             \E d2 \in {FromInt(DistSq(before, px, k.target))} :
               /\ FLt(d2, k.distThresholdSq) => (data[px + 3] = 0 /\ RgbKept(px))
               /\ ~FLt(d2, k.bandSq) =>
                    (RgbKept(px) /\ data[px + 3] = before[px + 3])
               /\ (params.smoothness = 0 /\ ~FLt(d2, k.distThresholdSq)) =>
                    (RgbKept(px) /\ data[px + 3] = before[px + 3])
               /\ ~RgbKept(px) =>
                    /\ params.spill > 0
                    /\ ~FLt(d2, k.distThresholdSq)
                    /\ FLt(d2, k.bandSq)

----------------------------------------------------------------------------
(* C26: what an invocation of renderCanvas that draws leaves on the canvas *)
(* does not depend on what earlier invocations left there: it is the same  *)
(* for every previous canvas, being what the stages paint, from the source *)
(* frame, the parameters and the layer flags alone, on a cleared canvas    *)
(* on which the base frame was redrawn.                                    *)

\* One stage applied to a canvas st.ops of an invocation still running
\* (st.live): a stage that reads pixels throws on a canvas without any, a
\* stage that runs paints when it has something to paint.
FreshStep(st, active, reads, paints, name, deg) ==
  IF ~st.live \/ ~active THEN st
  ELSE IF reads /\ deg THEN [st EXCEPT !.live = FALSE]
  ELSE IF paints THEN [st EXCEPT !.ops = Append(@, name)]
  ELSE st

\* The canvas a w x h frame gives when drawn from nothing, as a function of
\* the App state and the refs only.
FreshFrame(a, r, w, h) ==
  LET deg == Degenerate(w, h)
      s0 == [ops |-> IF deg THEN <<>> ELSE <<"base">>, live |-> TRUE]
      s1 == FreshStep(s0, a.threshold > 0, TRUE, TRUE, "threshold", deg)
      s2 == FreshStep(s1, a.activeLayers["BLEND"], TRUE,
                      r.blendRef.kind # "null", "blend", deg)
      s3 == FreshStep(s2, a.activeLayers["TEXT"], FALSE,
                      a.textContent # "", "text", deg)
      s4 == FreshStep(s3, a.activeLayers["MANUAL"], TRUE, TRUE, "glitch", deg)
      s5 == FreshStep(s4, a.activeLayers["HALFTONE"], TRUE, TRUE, "halftone", deg)
  IN FreshStep(s5, a.activeLayers["ASCII"], FALSE, ~AsciiGridEmpty(w, h),
               "ascii", deg)

\* C26: at the end of an invocation that drew, canvas and buffer are what
\* FreshFrame gives, whatever the canvas held before.
C26_IndependentOfPreviousBuffer ==
  phase \in {"done", "threw"} =>
    \E src \in {SelectSource(app, refs)} :
      \E wh \in {OutputDims(src.w, src.h)} :
        \E f \in {FreshFrame(app, refs, wh[1], wh[2])} :
          /\ canvas = [width |-> wh[1], height |-> wh[2], ops |-> f.ops]
          /\ f.live <=> phase = "done"
          /\ data = IF app.threshold > 0 /\ ~Degenerate(wh[1], wh[2])
                      THEN applyThreshold(BaseRaster(src, wh[1], wh[2]),
                                          app.threshold)
                      ELSE BaseRaster(src, wh[1], wh[2])

\* An invocation that found a canvas of the size of its frame with a base
\* frame and text on it, and left one with the base frame and the glitch.
C26_Witness ==
  /\ phase = "done"
  /\ saved = [width |-> canvas.width, height |-> canvas.height,
              ops |-> <<"base", "text">>]
  /\ canvas.ops = <<"base", "glitch">>

----------------------------------------------------------------------------
(* The auth service of storage.ts, lines 11-76, and SpecAuth: the form of  *)
(* Profile.tsx 314-334 submitted, and the logout of App.tsx 794, again and *)
(* again on a storage that starts empty.  calls holds the last call: what  *)
(* it was given, and what it returned or threw.                            *)

UpperCase == <<"A", "B", "C", "D", "E", "F", "G", "H", "I", "J", "K", "L", "M",
               "N", "O", "P", "Q", "R", "S", "T", "U", "V", "W", "X", "Y", "Z">>

LowerCase == <<"a", "b", "c", "d", "e", "f", "g", "h", "i", "j", "k", "l", "m",
               "n", "o", "p", "q", "r", "s", "t", "u", "v", "w", "x", "y", "z">>

\* String.prototype.toLowerCase on the characters used here.
toLowerCase(str) ==
  [i \in DOMAIN str |->
     IF \E k \in DOMAIN UpperCase : UpperCase[k] = str[i]
       THEN LowerCase[CHOOSE k \in DOMAIN UpperCase : UpperCase[k] = str[i]]
       ELSE str[i]]

\* String.prototype.trim
RECURSIVE trim(_)
trim(str) ==
  IF str = <<>> THEN str
  ELSE IF Head(str) = " " THEN trim(Tail(str))
  ELSE IF str[Len(str)] = " " THEN trim(SubSeq(str, 1, Len(str) - 1))
  ELSE str

\* Lines 34, 49 and 71 with the usernames compared as they are.
FindUserExact(users, username) ==
  LET hits == {i \in DOMAIN users : users[i].username = username}
  IN IF hits = {} THEN 0 ELSE CHOOSE i \in hits : \A j \in hits : i <= j

\* Lines 34, 49 and 71: users.find(u => u.username.toLowerCase() ===
\* username.toLowerCase()), as the index of the user found, 0 for none.
FindUser(users, username) ==
  LET hits == {i \in DOMAIN users :
                 toLowerCase(users[i].username) = toLowerCase(username)}
  IN IF hits = {} THEN 0 ELSE CHOOSE i \in hits : \A j \in hits : i <= j

\* Lines 66-72: the stored user of the session, or NoUser for null.
NoUser == [username |-> <<>>, joinedAt |-> 0, avatar |-> <<>>]

getCurrentUser(st) ==
  IF ~st.session.present \/ st.session.value = <<>> THEN NoUser
  ELSE IF FindUser(st.users, st.session.value) = 0 THEN NoUser
  ELSE st.users[FindUser(st.users, st.session.value)]

\* Lines 53-58: the user record; the avatar is told by its seed.
NewUser(username, now) ==
  [username |-> username, joinedAt |-> now, avatar |-> username]

\* Which write of a call finds the storage full: none, the first, the
\* second.
FullAt == {0, 1, 2}

\* Lines 31-45 with the auto-creation the comment of line 37 speaks of in
\* place of the throw of line 39.
loginUserAutoCreate(st, username, full) ==
  LET i == FindUser(st.users, username)
  IN IF full = 1
       THEN [st |-> st, threw |-> "QuotaExceededError", user |-> NoUser]
     ELSE IF i = 0
       THEN [st |-> [st EXCEPT !.users = Append(@, NewUser(username, 0)),
                               !.session = [present |-> TRUE, value |-> username]],
             threw |-> "", user |-> NewUser(username, 0)]
     ELSE [st |-> [st EXCEPT !.session =
                     [present |-> TRUE, value |-> st.users[i].username]],
           threw |-> "", user |-> st.users[i]]

\* Lines 31-45.  The result is the storage after the call and what the call
\* returned or threw.
loginUser(st, username, full) ==
  LET i == FindUser(st.users, username)
  IN IF i = 0
       THEN [st |-> st, threw |-> "User not found", user |-> NoUser]
     ELSE IF full = 1
       THEN [st |-> st, threw |-> "QuotaExceededError", user |-> NoUser]
     ELSE [st |-> [st EXCEPT !.session =
                     [present |-> TRUE, value |-> st.users[i].username]],
           threw |-> "", user |-> st.users[i]]

\* Lines 47-64
registerUser(st, username, now, full) ==
  IF FindUser(st.users, username) # 0
    THEN [st |-> st, threw |-> "Username taken", user |-> NoUser]
  ELSE IF full = 1
    THEN [st |-> st, threw |-> "STORAGE_FULL_DELETE_OLD_POSTS", user |-> NoUser]
  ELSE IF full = 2
    THEN [st |-> [st EXCEPT !.users = Append(@, NewUser(username, now))],
          threw |-> "QuotaExceededError", user |-> NoUser]
  ELSE [st |-> [st EXCEPT !.users = Append(@, NewUser(username, now)),
                          !.session = [present |-> TRUE, value |-> username]],
        threw |-> "", user |-> NewUser(username, now)]

\* Lines 74-76
logoutUser(st) == [st EXCEPT !.session = NoItem]

\* The usernames typed into the form.
AuthNames ==
  { <<"n", "e", "o">>, <<"N", "e", "o">>, <<"N", "E", "O">>,
    <<"t", "4">>, <<"T", "4">>, <<" ", "n", "e", "o">>, <<" ">>, <<>> }

\* At most this many submissions of the form are followed.
MaxAuthCalls == 4

AuthInit ==
  /\ localStorage = NoStorage
  /\ clock = 0
  /\ calls = <<>>
  /\ phase = "idle"
  /\ data = NoData
  /\ before = NoData
  /\ orig = NoData
  /\ blocks = <<>>
  /\ params = [threshold |-> 0]
  /\ width = 0
  /\ height = 0
  /\ app = [appMode |-> "PROFILE"]
  /\ refs = [originalImgRef |-> NullRef]
  /\ canvas = [width |-> 0, height |-> 0, ops |-> <<>>]
  /\ saved = canvas
  /\ blendData = NoData
  /\ grid = NoGrid
  /\ loop = NoLoop
  /\ dots = {}
  /\ raf = NoRaf

\* Auth.handleSubmit, Profile.tsx 314-334: a blank username is refused,
\* otherwise loginUser or registerUser is called and what it throws is
\* caught.
AuthSubmit ==
  /\ clock < MaxAuthCalls
  /\ clock' = clock + 1
  /\ \E username \in AuthNames, isLogin \in BOOLEAN, full \in FullAt :
       IF trim(username) = <<>>
         THEN /\ calls' = <<[op |-> "none", username |-> username,
                             threw |-> "IDENTITY_REQUIRED", user |-> NoUser,
                             prior |-> localStorage]>>
              /\ phase' = "refused"
              /\ UNCHANGED localStorage
         ELSE \E r \in {IF isLogin THEN loginUser(localStorage, username, full)
                        ELSE registerUser(localStorage, username, clock', full)} :
                /\ localStorage' = r.st
                /\ calls' = <<[op |-> IF isLogin THEN "loginUser" ELSE "registerUser",
                               username |-> username, threw |-> r.threw,
                               user |-> r.user, prior |-> localStorage]>>
                /\ phase' = IF r.threw = "" THEN "returned" ELSE "threw"
  /\ UNCHANGED <<width, height, bufVars, app, refs, canvas, saved, blendData,
                 grid, loop, dots, raf>>

\* App.tsx 794: logoutUser()
AuthLogout ==
  /\ localStorage' = logoutUser(localStorage)
  /\ calls' = <<[op |-> "logoutUser", username |-> <<>>, threw |-> "",
                 user |-> NoUser, prior |-> localStorage]>>
  /\ phase' = "returned"
  /\ UNCHANGED <<width, height, bufVars, app, refs, canvas, saved, blendData,
                 grid, loop, dots, raf, clock>>

AuthNext == AuthSubmit \/ AuthLogout

SpecAuth == AuthInit /\ [][AuthNext]_vars

----------------------------------------------------------------------------
(* C27: after any sequence of registerUser, loginUser and logoutUser calls *)
(* no two stored users have usernames that are equal ignoring letter case; *)
(* registerUser adds a user only when no stored username matches ignoring  *)
(* case.                                                                   *)

C27_UniqueIgnoringCase ==
  /\ \A i, j \in DOMAIN localStorage.users :
       toLowerCase(localStorage.users[i].username)
         = toLowerCase(localStorage.users[j].username) => i = j
  /\ (phase # "idle" /\ localStorage.users # calls[1].prior.users) =>
       /\ calls[1].op = "registerUser"
       /\ \A i \in DOMAIN calls[1].prior.users :
            toLowerCase(calls[1].prior.users[i].username)
              # toLowerCase(calls[1].username)
       /\ localStorage.users
            = Append(calls[1].prior.users,
                     localStorage.users[Len(localStorage.users)])
       /\ localStorage.users[Len(localStorage.users)].username = calls[1].username

\* 'NEO' was refused with 'neo' stored, and another name is stored too.
C27_Witness ==
  /\ phase = "threw"
  /\ calls[1].op = "registerUser"
  /\ calls[1].username = <<"N", "E", "O">>
  /\ calls[1].threw = "Username taken"
  /\ Len(localStorage.users) = 2
  /\ localStorage.users[1].username = <<"n", "e", "o">>

----------------------------------------------------------------------------
(* C30: loginUser with a username that matches no stored user ignoring     *)
(* case throws 'User not found', registerUser with a username taken        *)
(* ignoring case throws 'Username taken', and both leave the stored users  *)
(* and the session as they were, so that getCurrentUser returns what it    *)
(* returned before; after a loginUser or registerUser that returned,       *)
(* getCurrentUser returns the stored user the call returned, and after     *)
(* logoutUser it returns null.                                             *)

\* Whether some user of the list has the username, ignoring case.
Taken(users, username) ==
  \E i \in DOMAIN users : toLowerCase(users[i].username) = toLowerCase(username)

\* C30: the two refusals change neither users nor session; a call that
\* returned makes its user the current one; logout leaves none.
C30_FailedAuthChangesNothing ==
  phase \in {"returned", "threw"} =>
    \E c \in {calls[1]} :
      /\ (c.op = "loginUser" /\ ~Taken(c.prior.users, c.username)) =>
           /\ c.threw = "User not found"
           /\ localStorage.users = c.prior.users
           /\ localStorage.session = c.prior.session
           /\ getCurrentUser(localStorage) = getCurrentUser(c.prior)
      /\ (c.op = "registerUser" /\ Taken(c.prior.users, c.username)) =>
           /\ c.threw = "Username taken"
           /\ localStorage.users = c.prior.users
           /\ localStorage.session = c.prior.session
           /\ getCurrentUser(localStorage) = getCurrentUser(c.prior)
      /\ (c.op \in {"loginUser", "registerUser"} /\ c.threw = "") =>
           /\ getCurrentUser(localStorage) = c.user
           /\ c.user # NoUser
           /\ \E i \in DOMAIN localStorage.users : localStorage.users[i] = c.user
           /\ toLowerCase(c.user.username) = toLowerCase(c.username)
      /\ c.op = "logoutUser" => getCurrentUser(localStorage) = NoUser

\* With 'neo' logged in and stored, a login as 't4' was refused and the
\* session is still that of 'neo'.
C30_Witness ==
  /\ phase = "threw"
  /\ calls[1].op = "loginUser"
  /\ calls[1].username = <<"t", "4">>
  /\ calls[1].threw = "User not found"
  /\ getCurrentUser(localStorage) # NoUser
  /\ getCurrentUser(localStorage).username = <<"n", "e", "o">>

----------------------------------------------------------------------------
(* The post service of storage.ts, lines 80-121, and SpecPosts: a logged   *)
(* in user saves one post after another (App.tsx 696-706).  calls holds    *)
(* the last call, the ids of all posts created so far, newest first, and   *)
(* the number of calls so far that found the storage full.                 *)

\* Lines 83-91: the post; its id is told by the time of the call.
NewPost(user, mediaData, caption, type, now) ==
  [id |-> now, username |-> user.username, image |-> mediaData,
   type |-> type, caption |-> caption, timestamp |-> now, likes |-> 0]

\* Lines 94-99 with the new post put last.
UpdatedPostsAppended(newPost, posts) ==
  IF Len(posts) + 1 > 15 THEN SubSeq(Append(posts, newPost), 1, 15)
  ELSE Append(posts, newPost)

\* Lines 94-99: [newPost, ...posts], cut to 15 entries
UpdatedPosts(newPost, posts) ==
  IF Len(posts) + 1 > 15 THEN SubSeq(<<newPost>> \o posts, 1, 15)
  ELSE <<newPost>> \o posts

\* Lines 80-117 with the cleanup of line 107 keeping ten posts.
createPostKeepTen(st, user, mediaData, caption, type, now, full) ==
  LET newPost == NewPost(user, mediaData, caption, type, now)
      updatedPosts == UpdatedPosts(newPost, st.posts)
  IN IF full = 0
       THEN [st |-> [st EXCEPT !.posts = updatedPosts], threw |-> "",
             post |-> newPost]
     ELSE IF Len(updatedPosts) > 5
       THEN IF full = 1
              THEN [st |-> [st EXCEPT !.posts = SubSeq(updatedPosts, 1, Min(10, Len(updatedPosts)))],
                    threw |-> "", post |-> newPost]
              ELSE [st |-> st, threw |-> "STORAGE_FULL_DELETE_OLD_POSTS",
                    post |-> newPost]
     ELSE [st |-> st, threw |-> "STORAGE FULL. DELETE POSTS.", post |-> newPost]

\* Lines 80-117.  full tells how many of the writes (lines 102 and 108)
\* find the storage full; a write that fails leaves the item as it was.
createPost(st, user, mediaData, caption, type, now, full) ==
  LET newPost == NewPost(user, mediaData, caption, type, now)
      updatedPosts == UpdatedPosts(newPost, st.posts)
  IN IF full = 0
       THEN [st |-> [st EXCEPT !.posts = updatedPosts], threw |-> "",
             post |-> newPost]
     ELSE IF Len(updatedPosts) > 5
       THEN IF full = 1
              THEN [st |-> [st EXCEPT !.posts = SubSeq(updatedPosts, 1, 5)],
                    threw |-> "", post |-> newPost]
              ELSE [st |-> st, threw |-> "STORAGE_FULL_DELETE_OLD_POSTS",
                    post |-> newPost]
     ELSE [st |-> st, threw |-> "STORAGE FULL. DELETE POSTS.", post |-> newPost]

\* Lines 119-121
getPosts(st) == st.posts

\* At most this many calls of createPost are followed, and at most this
\* many of them find the storage full.
MaxPosts == 17

MaxFull == 2

PostUser == NewUser(<<"n", "e", "o">>, 0)

PostInit ==
  /\ localStorage = [users |-> <<PostUser>>, posts |-> <<>>,
                     session |-> [present |-> TRUE, value |-> PostUser.username]]
  /\ clock = 0
  /\ calls = <<[op |-> "none", threw |-> "", post |-> NewPost(PostUser, "", "", "image", 0),
                prior |-> <<>>, full |-> 0, created |-> <<>>, fulls |-> 0]>>
  /\ phase = "idle"
  /\ data = NoData
  /\ before = NoData
  /\ orig = NoData
  /\ blocks = <<>>
  /\ params = [threshold |-> 0]
  /\ width = 0
  /\ height = 0
  /\ app = [appMode |-> "IMAGE"]
  /\ refs = [originalImgRef |-> NullRef]
  /\ canvas = [width |-> 0, height |-> 0, ops |-> <<>>]
  /\ saved = canvas
  /\ blendData = NoData
  /\ grid = NoGrid
  /\ loop = NoLoop
  /\ dots = {}
  /\ raf = NoRaf

\* handlePostToProfile, App.tsx 696-706: createPost for the current user
\* with the canvas as a PNG; what it throws is caught and shown.
PostSubmit ==
  /\ clock < MaxPosts
  /\ clock' = clock + 1
  /\ \E full \in FullAt :
       /\ full > 0 => calls[1].fulls < MaxFull
       /\ \E r \in {createPost(localStorage, getCurrentUser(localStorage),
                               "data:", "UNTITLED SIGNAL", "image", clock', full)} :
            /\ localStorage' = r.st
            /\ calls' = <<[op |-> "createPost", threw |-> r.threw, post |-> r.post,
                           prior |-> getPosts(localStorage), full |-> full,
                           created |-> IF r.threw = "" THEN <<r.post.id>> \o calls[1].created
                                       ELSE calls[1].created,
                           fulls |-> calls[1].fulls + (IF full > 0 THEN 1 ELSE 0)]>>
            /\ phase' = IF r.threw = "" THEN "returned" ELSE "threw"
  /\ UNCHANGED <<width, height, bufVars, app, refs, canvas, saved, blendData,
                 grid, loop, dots, raf>>

PostNext == PostSubmit

SpecPosts == PostInit /\ [][PostNext]_vars

----------------------------------------------------------------------------
(* C28: after any sequence of createPost calls that returned, the stored   *)
(* list has at most 15 entries, is ordered newest first (the post the last *)
(* call returned at index 0, the older ones in the order they had) and     *)
(* consists of exactly the most recent min(n, 15) posts created.           *)

PostIds(posts) == [i \in DOMAIN posts |-> posts[i].id]

\* The list is the most recent k posts created, newest first, k <= 15, and
\* the last call, if it returned, put its post in front of older ones.
NewestFirst ==
  \E c \in {calls[1]}, posts \in {getPosts(localStorage)} :
    /\ Len(posts) <= 15
    /\ Len(posts) <= Len(c.created)
    /\ PostIds(posts) = SubSeq(c.created, 1, Len(posts))
    /\ (c.op = "createPost" /\ c.threw = "") =>
         /\ posts[1] = c.post
         /\ Tail(posts) = SubSeq(c.prior, 1, Len(posts) - 1)

\* C28 as stated, for the calls that returned whether or not a write of
\* theirs had failed.
C28_NewestFifteen ==
  /\ NewestFirst
  /\ clock = Len(calls[1].created) =>
       Len(getPosts(localStorage)) = Min(Len(calls[1].created), 15)

\* C28 amended: the list is the most recent min(n, 15) posts as long as no
\* call has found the storage full; a call that returns after its first
\* write failed leaves the 5 newest posts, and from then on the list is
\* the most recent k posts for some k <= min(n, 15).
C28_NewestFifteenUnlessFull ==
  /\ NewestFirst
  /\ calls[1].fulls = 0 =>
       Len(getPosts(localStorage)) = Min(Len(calls[1].created), 15)
  /\ (calls[1].op = "createPost" /\ calls[1].threw = "") =>
       Len(getPosts(localStorage)) =
         IF calls[1].full = 0 THEN Min(Len(calls[1].prior) + 1, 15) ELSE 5

\* Seventeen posts created with no write failing: the list holds the
\* fifteen newest, the last one in front.
C28_Witness ==
  /\ phase = "returned"
  /\ calls[1].fulls = 0
  /\ Len(calls[1].created) = 17
  /\ PostIds(getPosts(localStorage)) = [i \in 1..15 |-> 18 - i]

----------------------------------------------------------------------------
(* C29: when the write of createPost fails for lack of space, a new list   *)
(* of more than 5 posts is cut to its 5 newest posts, the new post first,  *)
(* and written once more, and when that write succeeds the new post is     *)
(* returned; with 5 or fewer posts createPost throws 'STORAGE FULL. DELETE *)
(* POSTS.'; whenever createPost throws, the stored list is exactly what it *)
(* was before the call.                                                    *)

C29_StorageFull ==
  (phase \in {"returned", "threw"} /\ calls[1].op = "createPost") =>
    \E c \in {calls[1]}, posts \in {getPosts(localStorage)} :
      /\ (c.full > 0 /\ Len(c.prior) + 1 > 5) =>
           IF c.full = 1
             THEN /\ c.threw = ""
                  /\ posts = <<c.post>> \o SubSeq(c.prior, 1, 4)
                  /\ c.post.id = clock
             ELSE c.threw # ""
      /\ (c.full > 0 /\ Len(c.prior) + 1 <= 5) =>
           c.threw = "STORAGE FULL. DELETE POSTS."
      /\ c.threw # "" => posts = c.prior
      /\ c.full = 0 => c.threw = ""

\* A list of eight posts cut to the new post and the four newest of them.
C29_Witness ==
  /\ phase = "returned"
  /\ calls[1].full = 1
  /\ Len(calls[1].prior) = 8
  /\ Len(getPosts(localStorage)) = 5
  /\ getPosts(localStorage)[1].id = clock
  /\ getPosts(localStorage)[5] = calls[1].prior[4]

============================================================================
